---- MODULE Spec2Model ----
(***************************************************************************)
(* Model of the Azure Functions wrapper of opennextjs-azure                *)
(* (adapters/wrappers/azure-functions: one invocation of the wrapper for   *)
(* one HTTP request), together with the handler and the Writable sinks it  *)
(* talks to.                                                               *)
(*                                                                         *)
(* Strings are sequences of tokens: a path is a sequence over "/", "." and *)
(* names, a header value a sequence of string pieces, a response body a    *)
(* sequence of code points, a chunk (Buffer) a sequence of bytes.          *)
(***************************************************************************)
EXTENDS Integers, Sequences, FiniteSets, TLC

\* ------------------------------------------------------------------ bounds
MaxSinks == 2       \* writeHeaders calls the handler makes in one request
MaxChunks == 2      \* write() calls accepted by the sinks of one request
MaxRejected == 1    \* write() calls made after end() in one request

\* ------------------------------------------------------- values and inputs
Undefined == [undefined |-> TRUE]

\* The InternalResults convertTo is applied to. A header value is a string
\* [s |-> ...], an array [list |-> ...] or null; the body is a ReadableStream
\* of chunks or absent.
Null == [null |-> TRUE]

\* U+FFFD REPLACEMENT CHARACTER, what Buffer.toString("utf8") emits for an
\* ill-formed byte sequence.
ReplacementChar == 65533

\* The bytes the handler writes: 'f', and the two bytes of U+00E9 (0xC3 0xA9),
\* which may arrive in one chunk, split over two chunks, or alone.
Bytes == {102, 195, 169}

\* The chunks the handler writes: U+00E9 is split over the two of them.
Chunks == {<<102, 195>>, <<169>>}

NullBodySet == {101, 204, 205, 304}

\* The preludes the handler passes to writeHeaders: every null-body status
\* and 200; with and without cookies, with and without a set-cookie header
\* of their own.
Preludes ==
    { [statusCode |-> 101, cookies |-> <<>>,
       headers |-> ("content-type" :> <<"text/plain">>)],
      [statusCode |-> 204, cookies |-> <<"a=1", "b=2">>,
       headers |-> ("content-type" :> <<"text/plain">>)],
      [statusCode |-> 205, cookies |-> <<>>,
       headers |-> ("content-type" :> <<"text/plain">>) @@ ("set-cookie" :> <<"s=0">>)],
      [statusCode |-> 304, cookies |-> <<"a=1", "b=2">>,
       headers |-> ("content-type" :> <<"text/plain">>) @@ ("set-cookie" :> <<"s=0">>)],
      [statusCode |-> 200, cookies |-> <<"a=1", "b=2">>,
       headers |-> ("content-type" :> <<"text/plain">>)] }

\* Values a handler or converter throws: an Error (message and stack), or a
\* value that is not an Error.
NoError == [none |-> TRUE]

Errors ==
    { [isError |-> TRUE, message |-> "boom", stack |-> "Error: boom\n    at render"],
      [isError |-> FALSE, value |-> "oops"] }

\* URL pathnames of the requests (new URL(request.url).pathname).
Pathnames ==
    { <<"/">>,
      <<"/", "about">>,
      <<"/", "_next", "/", "static", "/", "chunk", ".", "js">>,
      <<"/", "_next", "/", "static", "/">>,
      <<"/", "_next", "/", "static">>,
      <<"/", "_next", "/", "data", "/", "page", ".", "json">>,
      <<"/", "_next", "/", "image">>,
      <<"/", "favicon", ".", "ico">>,
      <<"/", "robots", ".", "txt">>,
      <<"/", "sitemap", ".", "xml">>,
      <<"/", "logo", ".", "png">>,
      <<"/", "a", ".", "b", ".", "woff2">>,
      <<"/", ".", "png">>,
      <<"/", "img", "/", "logo", ".", "png">>,
      <<"/", "api", "/", "robots", ".", "txt">> }

Requests == [pathname : Pathnames, malformed : BOOLEAN]

\* The requests of the streaming runs: one path the handler renders and one
\* static asset.
StreamRequests ==
    [pathname : { <<"/", "about">>,
                  <<"/", "_next", "/", "static", "/", "chunk", ".", "js">> },
     malformed : BOOLEAN]

NodeEnvs == {"development", "production"}

StorageAccounts == {"mystorage"}

\* The storage account before anything is written: the incremental cache's
\* blobs, the tag table's rows, the revalidation queue, the optimized images.
EmptyStorage == [blobs |-> {}, rows |-> {}, queue |-> <<>>, images |-> {}]

\* new Date(Date.now() - 10000): where streamLogs starts reading.
StartTimestamp == 0

VARIABLES
    pc,             \* where the wrapper invocation is: convert, handler, awaitStream, done
    request,        \* the inbound request
    env,            \* process.env: NODE_ENV, AZURE_STORAGE_ACCOUNT_NAME
    internalEvent,  \* converter.convertFrom(request), Undefined before
    contextRes,     \* context.res
    handlerState,   \* notInvoked, running, returned, threw
    thrown,         \* the value convertFrom or the handler threw, NoError if none
    streamFinished, \* index into promises of the promise, 0 for null
    resolveStream,  \* index into promises of the promise the resolver settles, 0 for null
    promises,       \* per promise created: how many times its resolver was called
    sinks,          \* the Writables writeHeaders returned, in creation order
    rejectedWrites, \* write() calls after end(), refused by the Writable
    op,             \* the converter, cache or image call last made, Undefined before
    result,         \* what that call returned or threw
    storage,        \* the storage account: blobs, table rows, queue messages, images
    bindingsMetadata, \* the loaded .bindings.json of the bindings runtime, Null before
    clientCache,    \* the bindings runtime's Map of binding name to client
    created,        \* the clients the binding factories constructed, in order
    lastTimestamp,  \* streamLogs: the timestamp the next query starts after
    seenMessages,   \* streamLogs: the Set of message keys, in insertion order
    polls,          \* streamLogs: the queries started, in order, and how far each is
    printed,        \* streamLogs: the rows written to stdout, in order
    telemetry       \* the rows Application Insights has ingested

vars ==
    << pc, request, env, internalEvent, contextRes, handlerState, thrown,
       streamFinished, resolveStream, promises, sinks, rejectedWrites,
       op, result, storage, bindingsMetadata, clientCache, created,
       lastTimestamp, seenMessages, polls, printed, telemetry >>

\* The module state of the bindings runtime.
bindingVars == << bindingsMetadata, clientCache, created >>

\* The closure state of streamLogs.
tailVars == << lastTimestamp, seenMessages, polls, printed, telemetry >>

\* What the wrapper's steps leave alone: the converter, cache and image
\* calls, the bindings runtime and the command line.
backendVars == << op, result, storage, bindingVars, tailVars >>

\* What the converter, cache and image calls leave alone, env apart.
wrapperVars ==
    << pc, request, internalEvent, contextRes, handlerState, thrown,
       streamFinished, resolveStream, promises, sinks, rejectedWrites >>

\* --------------------------------------------------------- pure functions

\* Mutant: 205 Reset Content left out of the set.
NULL_BODY_STATUSES_Without205 == {101, 204, 304}

\* const NULL_BODY_STATUSES = new Set([101, 204, 205, 304])
NULL_BODY_STATUSES == {101, 204, 205, 304}

\* File extensions of the last STATIC_ASSET_PATTERNS entry.
AssetExtensions ==
    {"svg", "png", "jpg", "jpeg", "gif", "webp", "ico", "woff", "woff2", "ttf", "eot"}

\* p starts with the tokens of prefix (a regular expression anchored with ^).
StartsWith(p, prefix) ==
    /\ Len(p) >= Len(prefix)
    /\ SubSeq(p, 1, Len(prefix)) = prefix

\* /^\/[^\/]+\.(svg|png|...)$/ : one path segment, at least one character
\* before the last dot, the extension after it.
MatchesTopLevelAsset(p) ==
    /\ Len(p) >= 4
    /\ p[1] = "/"
    /\ \A i \in 2..Len(p) : p[i] # "/"
    /\ p[Len(p) - 1] = "."
    /\ p[Len(p)] \in AssetExtensions

\* STATIC_ASSET_PATTERNS, in the order of the source; each entry is the set
\* of paths its regular expression accepts, as a predicate.
STATIC_ASSET_PATTERNS(p) ==
    << StartsWith(p, <<"/", "_next", "/", "static", "/">>),
       StartsWith(p, <<"/", "_next", "/", "data", "/">>),
       p = <<"/", "favicon", ".", "ico">>,
       p = <<"/", "robots", ".", "txt">>,
       p = <<"/", "sitemap", ".", "xml">>,
       MatchesTopLevelAsset(p) >>

\* STATIC_ASSET_PATTERNS.some(pattern => pattern.test(pathname))
isStaticAssetRequest(pathname) ==
    \E k \in 1..Len(STATIC_ASSET_PATTERNS(pathname)) :
        STATIC_ASSET_PATTERNS(pathname)[k]

\* normalizePath of the converter.
\* Mutant: the slash is prepended whether or not the path already has one.
normalizePath_AlwaysPrepend(pathname) ==
    IF pathname = <<>> \/ pathname = <<"/">>
    THEN <<"/">>
    ELSE <<"/">> \o pathname

normalizePath(pathname) ==
    IF pathname = <<>> \/ pathname = <<"/">>
    THEN <<"/">>
    ELSE IF pathname[1] # "/" THEN <<"/">> \o pathname ELSE pathname

\* The part of converter.convertFrom the wrapper reads.
convertFrom(req) ==
    [type |-> "core", rawPath |-> normalizePath(req.pathname)]

\* Array.prototype.join
RECURSIVE Join(_, _)
Join(list, sep) ==
    IF list = <<>> THEN <<>>
    ELSE IF Len(list) = 1 THEN <<list[1]>>
    ELSE <<list[1], sep>> \o Join(Tail(list), sep)

\* const responseHeaders = { ...headers }; set-cookie added when there are cookies
responseHeaders(prelude) ==
    IF Len(prelude.cookies) > 0
    THEN ("set-cookie" :> Join(prelude.cookies, ", ")) @@ prelude.headers
    ELSE prelude.headers

\* Buffer.concat(chunks)
RECURSIVE BufferConcat(_)
BufferConcat(chunks) ==
    IF chunks = <<>> THEN <<>> ELSE chunks[1] \o BufferConcat(Tail(chunks))

\* body.toString("utf8"): the one- and two-byte forms of UTF-8 (no byte of
\* Bytes starts a longer form); an ill-formed byte decodes to U+FFFD.
RECURSIVE Utf8Decode(_)
Utf8Decode(b) ==
    IF b = <<>> THEN <<>>
    ELSE IF b[1] < 128 THEN <<b[1]>> \o Utf8Decode(Tail(b))
    ELSE IF b[1] \in 194..223 /\ Len(b) >= 2 /\ b[2] \in 128..191
         THEN <<(b[1] - 192) * 64 + (b[2] - 128)>> \o Utf8Decode(Tail(Tail(b)))
         ELSE <<ReplacementChar>> \o Utf8Decode(Tail(b))

\* context.res of a null-body prelude: status and headers, no body field.
NullBodyResponse(prelude) ==
    [status |-> prelude.statusCode, headers |-> responseHeaders(prelude)]

\* Decoding chunk by chunk instead of decoding the concatenation.
RECURSIVE DecodeEach(_)
DecodeEach(chunks) ==
    IF chunks = <<>> THEN <<>>
    ELSE Utf8Decode(chunks[1]) \o DecodeEach(Tail(chunks))

\* Mutant: each chunk is decoded on its own and the strings are joined.
FinalResponse_DecodePerChunk(sink) ==
    [status |-> sink.prelude.statusCode,
     headers |-> responseHeaders(sink.prelude),
     body |-> DecodeEach(sink.chunks)]

\* context.res assigned by final(callback) of a buffering sink.
FinalResponse(sink) ==
    [status |-> sink.prelude.statusCode,
     headers |-> responseHeaders(sink.prelude),
     body |-> Utf8Decode(BufferConcat(sink.chunks))]

\* Mutant: the redirect points at the container, the path is left out.
RedirectResponse_WithoutPath(rawPath) ==
    [status |-> 301,
     headers |->
        ("Location" :>
            <<"https://", env.AZURE_STORAGE_ACCOUNT_NAME,
              ".blob.core.windows.net/assets">>)
        @@ ("Cache-Control" :>
            <<"public", ", ", "max-age=31536000", ", ", "immutable">>)]

\* The redirect of a static asset request.
RedirectResponse(rawPath) ==
    [status |-> 301,
     headers |->
        ("Location" :>
            (<<"https://", env.AZURE_STORAGE_ACCOUNT_NAME,
               ".blob.core.windows.net/assets">> \o rawPath))
        @@ ("Cache-Control" :>
            <<"public", ", ", "max-age=31536000", ", ", "immutable">>)]

\* The response assigned when the handler left context.res unset.
FallbackResponse ==
    [status |-> 200,
     headers |-> ("content-type" :> <<"text/html">>),
     body |-> <<>>]

\* JSON.stringify of an object given as <<key, value>> pairs: a property
\* whose value is undefined is left out.
JSONStringify(pairs) ==
    SelectSeq(pairs, LAMBDA kv : kv[2] # Undefined)

\* Mutant: message is read as error.message whatever was thrown, so it is
\* undefined (and left out by JSON.stringify) for a value that is no Error.
ErrorResponse_MessageOfErrorOnly(error) ==
    [status |-> 500,
     headers |-> ("content-type" :> <<"application/json">>),
     body |-> JSONStringify(
        << <<"error", [string |-> "Internal Server Error"]>>,
           <<"message",
             IF error.isError THEN [string |-> error.message] ELSE Undefined>>,
           <<"stack",
             IF error.isError THEN [string |-> error.stack] ELSE Undefined>> >>)]

\* The response of the catch block.
ErrorResponse(error) ==
    [status |-> 500,
     headers |-> ("content-type" :> <<"application/json">>),
     body |-> JSONStringify(
        << <<"error", [string |-> "Internal Server Error"]>>,
           <<"message",
             IF error.isError THEN [string |-> error.message]
                              ELSE [string |-> error.value]>>,
           <<"stack",
             IF error.isError THEN [string |-> error.stack] ELSE Undefined>> >>)]

\* The Writable returned for a null-body status (no chunks array, no final).
NullBodySink(prelude) ==
    [prelude |-> prelude, nullBody |-> TRUE, chunks |-> <<>>,
     written |-> <<>>, callbacks |-> 0, state |-> "open"]

\* The Writable returned otherwise, with its chunks array.
BufferingSink(prelude) ==
    [prelude |-> prelude, nullBody |-> FALSE, chunks |-> <<>>,
     written |-> <<>>, callbacks |-> 0, state |-> "open"]

\* write(chunk, encoding, callback) of the two Writables.
SinkWriteImpl(sink, chunk) ==
    IF sink.nullBody
    THEN [sink EXCEPT !.callbacks = @ + 1]
    ELSE [sink EXCEPT !.chunks = Append(@, chunk), !.callbacks = @ + 1]

\* Mutant: the stream is not awaited.
StreamPending_NotAwaited == FALSE

\* if (streamFinished) await streamFinished
StreamPending == streamFinished # 0

\* Mutant: the fallback is assigned without looking at context.res.
ResAfterFallback_Unconditional == FallbackResponse

\* if (!context.res) context.res = fallback
ResAfterFallback ==
    IF contextRes = Undefined THEN FallbackResponse ELSE contextRes

\* ------------------------------------------------------------------ state

\* The bindings runtime as loaded and streamLogs as entered: nothing cached,
\* nothing constructed, nothing seen, no query started, no row ingested.
ModuleInit ==
    /\ bindingsMetadata = Null
    /\ clientCache = {}
    /\ created = << >>
    /\ lastTimestamp = StartTimestamp
    /\ seenMessages = << >>
    /\ polls = << >>
    /\ printed = << >>
    /\ telemetry = {}

InitWith(requests, nodeEnvs) ==
    /\ pc = "convert"
    /\ request \in requests
    /\ env \in [NODE_ENV : nodeEnvs, AZURE_STORAGE_ACCOUNT_NAME : StorageAccounts]
    /\ internalEvent = Undefined
    /\ contextRes = Undefined
    /\ handlerState = "notInvoked"
    /\ thrown = NoError
    /\ streamFinished = 0
    /\ resolveStream = 0
    /\ promises = <<>>
    /\ sinks = <<>>
    /\ rejectedWrites = 0
    /\ op = Undefined
    /\ result = Undefined
    /\ storage = EmptyStorage
    /\ ModuleInit

Init == InitWith(StreamRequests, {"production"})

\* The number of write() calls the sinks accepted so far.
RECURSIVE TotalWritten(_)
TotalWritten(ss) ==
    IF ss = <<>> THEN 0 ELSE Len(ss[1].written) + TotalWritten(Tail(ss))

\* ----------------------------------------------------- the wrapper's steps

\* converter.convertFrom rejects: the catch block answers.
ConvertThrows ==
    /\ pc = "convert"
    /\ request.malformed
    /\ \E e \in Errors :
        /\ thrown' = e
        /\ contextRes' = ErrorResponse(e)
    /\ pc' = "done"
    /\ UNCHANGED << request, env, internalEvent, handlerState, streamFinished,
                    resolveStream, promises, sinks, rejectedWrites >>
    /\ UNCHANGED backendVars

\* The path is a static asset: redirect to blob storage and return.
StaticAssetRedirect ==
    /\ pc = "convert"
    /\ ~request.malformed
    /\ isStaticAssetRequest(convertFrom(request).rawPath)
    /\ internalEvent' = convertFrom(request)
    /\ contextRes' = RedirectResponse(convertFrom(request).rawPath)
    /\ pc' = "done"
    /\ UNCHANGED << request, env, handlerState, thrown, streamFinished,
                    resolveStream, promises, sinks, rejectedWrites >>
    /\ UNCHANGED backendVars

\* Otherwise: handler(internalEvent, { streamCreator }) is called.
InvokeHandler ==
    /\ pc = "convert"
    /\ ~request.malformed
    /\ ~isStaticAssetRequest(convertFrom(request).rawPath)
    /\ internalEvent' = convertFrom(request)
    /\ handlerState' = "running"
    /\ pc' = "handler"
    /\ UNCHANGED << request, env, contextRes, thrown, streamFinished,
                    resolveStream, promises, sinks, rejectedWrites >>
    /\ UNCHANGED backendVars

\* The handler's promise resolved: wait for the stream if one was opened,
\* else apply the fallback and return.
AfterHandler ==
    /\ pc = "handler"
    /\ handlerState = "returned"
    /\ IF StreamPending
       THEN /\ pc' = "awaitStream"
            /\ UNCHANGED contextRes
       ELSE /\ pc' = "done"
            /\ contextRes' = ResAfterFallback
    /\ UNCHANGED << request, env, internalEvent, handlerState, thrown,
                    streamFinished, resolveStream, promises, sinks,
                    rejectedWrites >>
    /\ UNCHANGED backendVars

\* await streamFinished completes once the promise is resolved.
AfterStream ==
    /\ pc = "awaitStream"
    /\ promises[streamFinished] > 0
    /\ contextRes' = ResAfterFallback
    /\ pc' = "done"
    /\ UNCHANGED << request, env, internalEvent, handlerState, thrown,
                    streamFinished, resolveStream, promises, sinks,
                    rejectedWrites >>
    /\ UNCHANGED backendVars

\* The handler's promise rejected: the catch block answers.
CatchHandlerError ==
    /\ pc = "handler"
    /\ handlerState = "threw"
    /\ contextRes' = ErrorResponse(thrown)
    /\ pc' = "done"
    /\ UNCHANGED << request, env, internalEvent, handlerState, thrown,
                    streamFinished, resolveStream, promises, sinks,
                    rejectedWrites >>
    /\ UNCHANGED backendVars

\* ---------------------------------------- the handler and the sinks' steps
\* The handler and its stream act while the invocation lasts: the host reads
\* context.res when the wrapper's promise settles, so the steps below are
\* those taken before pc = "done".

\* streamCreator.writeHeaders(prelude)
WriteHeaders(prelude) ==
    /\ pc = "handler"
    /\ handlerState = "running"
    /\ Len(sinks) < MaxSinks
    /\ IF prelude.statusCode \in NULL_BODY_STATUSES
       THEN /\ contextRes' = NullBodyResponse(prelude)
            /\ sinks' = Append(sinks, NullBodySink(prelude))
            /\ UNCHANGED << streamFinished, resolveStream, promises >>
       ELSE /\ promises' = Append(promises, 0)
            /\ streamFinished' = Len(promises) + 1
            /\ resolveStream' = Len(promises) + 1
            /\ sinks' = Append(sinks, BufferingSink(prelude))
            /\ UNCHANGED contextRes
    /\ UNCHANGED << pc, request, env, internalEvent, handlerState, thrown,
                    rejectedWrites >>
    /\ UNCHANGED backendVars

\* sink.write(chunk) on an open sink; the stream may still be flowing after
\* the handler's promise has settled.
SinkWrite(i, chunk) ==
    /\ pc \in {"handler", "awaitStream"}
    /\ sinks[i].state = "open"
    /\ TotalWritten(sinks) < MaxChunks
    /\ sinks' = [sinks EXCEPT ![i] =
                    [SinkWriteImpl(@, chunk) EXCEPT !.written = Append(@, chunk)]]
    /\ UNCHANGED << pc, request, env, internalEvent, contextRes, handlerState,
                    thrown, streamFinished, resolveStream, promises,
                    rejectedWrites >>
    /\ UNCHANGED backendVars

\* sink.write(chunk) after sink.end(): the Writable refuses it, write() of
\* the sink is not called.
WriteAfterEnd(i) ==
    /\ pc \in {"handler", "awaitStream"}
    /\ sinks[i].state # "open"
    /\ rejectedWrites < MaxRejected
    /\ rejectedWrites' = rejectedWrites + 1
    /\ UNCHANGED << pc, request, env, internalEvent, contextRes, handlerState,
                    thrown, streamFinished, resolveStream, promises, sinks >>
    /\ UNCHANGED backendVars

\* sink.end()
SinkEnd(i) ==
    /\ pc \in {"handler", "awaitStream"}
    /\ sinks[i].state = "open"
    /\ sinks' = [sinks EXCEPT ![i].state = "ended"]
    /\ UNCHANGED << pc, request, env, internalEvent, contextRes, handlerState,
                    thrown, streamFinished, resolveStream, promises,
                    rejectedWrites >>
    /\ UNCHANGED backendVars

\* Mutant: final() assigns context.res and does not call resolveStream.
SinkFinal_WithoutResolve(i) ==
    /\ pc \in {"handler", "awaitStream"}
    /\ ~sinks[i].nullBody
    /\ sinks[i].state = "ended"
    /\ contextRes' = FinalResponse(sinks[i])
    /\ sinks' = [sinks EXCEPT ![i].state = "finished"]
    /\ UNCHANGED << pc, request, env, internalEvent, handlerState, thrown,
                    streamFinished, resolveStream, promises, rejectedWrites >>
    /\ UNCHANGED backendVars

\* final(callback) of a buffering sink, run by the Writable once after end():
\* assigns context.res and calls resolveStream.
SinkFinal(i) ==
    /\ pc \in {"handler", "awaitStream"}
    /\ ~sinks[i].nullBody
    /\ sinks[i].state = "ended"
    /\ contextRes' = FinalResponse(sinks[i])
    /\ sinks' = [sinks EXCEPT ![i].state = "finished"]
    /\ promises' = IF resolveStream # 0
                   THEN [promises EXCEPT ![resolveStream] = @ + 1]
                   ELSE promises
    /\ UNCHANGED << pc, request, env, internalEvent, handlerState, thrown,
                    streamFinished, resolveStream, rejectedWrites >>
    /\ UNCHANGED backendVars

\* The handler's promise resolves.
HandlerReturns ==
    /\ pc = "handler"
    /\ handlerState = "running"
    /\ handlerState' = "returned"
    /\ UNCHANGED << pc, request, env, internalEvent, contextRes, thrown,
                    streamFinished, resolveStream, promises, sinks,
                    rejectedWrites >>
    /\ UNCHANGED backendVars

\* The handler's promise rejects with e.
HandlerThrows(e) ==
    /\ pc = "handler"
    /\ handlerState = "running"
    /\ handlerState' = "threw"
    /\ thrown' = e
    /\ UNCHANGED << pc, request, env, internalEvent, contextRes,
                    streamFinished, resolveStream, promises, sinks,
                    rejectedWrites >>
    /\ UNCHANGED backendVars

Next ==
    \/ ConvertThrows
    \/ StaticAssetRedirect
    \/ InvokeHandler
    \/ AfterHandler
    \/ AfterStream
    \/ CatchHandlerError
    \/ \E p \in Preludes : WriteHeaders(p)
    \/ \E i \in 1..Len(sinks) : \E c \in Chunks : SinkWrite(i, c)
    \/ \E i \in 1..Len(sinks) : WriteAfterEnd(i)
    \/ \E i \in 1..Len(sinks) : SinkEnd(i)
    \/ \E i \in 1..Len(sinks) : SinkFinal(i)
    \/ HandlerReturns
    \/ \E e \in Errors : HandlerThrows(e)

Spec == Init /\ [][Next]_vars

\* The routing runs: every request path, and a handler that answers without
\* streaming (it returns or throws before any writeHeaders call).
RouteInit == InitWith(Requests, NodeEnvs)

RouteNext ==
    \/ ConvertThrows
    \/ StaticAssetRedirect
    \/ InvokeHandler
    \/ HandlerReturns
    \/ \E e \in Errors : HandlerThrows(e)
    \/ AfterHandler
    \/ CatchHandlerError

RouteSpec == RouteInit /\ [][RouteNext]_vars

\* ------------------------------------------------------------- properties

\* The Set-Cookie value the prelude's cookies are folded into: the cookie
\* strings in order, ", " between two of them.
CookieHeader(cookies) ==
    [k \in 1..(2 * Len(cookies) - 1) |->
        IF k % 2 = 1 THEN cookies[(k + 1) \div 2] ELSE ", "]

\* h is the header mapping of prelude p: each header of p as given, and
\* set-cookie holding the folded cookies when p has cookies.
CarriesPreludeHeaders(h, p) ==
    /\ DOMAIN h =
          DOMAIN p.headers \cup (IF p.cookies # <<>> THEN {"set-cookie"} ELSE {})
    /\ \A k \in DOMAIN p.headers \ {"set-cookie"} : h[k] = p.headers[k]
    /\ p.cookies # <<>> => h["set-cookie"] = CookieHeader(p.cookies)
    /\ (p.cookies = <<>> /\ "set-cookie" \in DOMAIN p.headers)
          => h["set-cookie"] = p.headers["set-cookie"]

\* The number of times a resolver of a completion promise was called.
RECURSIVE ResolveCalls(_)
ResolveCalls(ps) ==
    IF ps = <<>> THEN 0 ELSE ps[1] + ResolveCalls(Tail(ps))

\* Sink i was given a null-body status / any other status.
IsNullBodySink(i) == sinks[i].prelude.statusCode \in NullBodySet
IsBodySink(i) == sinks[i].prelude.statusCode \notin NullBodySet

\* The handler's exception has been answered by the catch block.
Caught == pc = "done" /\ thrown # NoError

\* C1: a sink returned for a status in {101, 204, 205, 304} stores no chunk
\* and has called back once per write; and as long as every writeHeaders call
\* of the request had such a status and the handler has not thrown,
\* context.res has the status and headers of the latest prelude and no body
\* field, whatever was written to or closed on the sinks.
NullBodyStatusHasNoBody ==
    /\ \A i \in 1..Len(sinks) :
          IsNullBodySink(i) =>
             /\ sinks[i].chunks = <<>>
             /\ sinks[i].callbacks = Len(sinks[i].written)
    /\ ( /\ sinks # <<>>
         /\ \A i \in 1..Len(sinks) : IsNullBodySink(i)
         /\ ~Caught )
       => /\ contextRes # Undefined
          /\ DOMAIN contextRes = {"status", "headers"}
          /\ contextRes.status = sinks[Len(sinks)].prelude.statusCode
          /\ CarriesPreludeHeaders(contextRes.headers, sinks[Len(sinks)].prelude)

\* C1 witness: the request is over, the handler wrote two chunks to the sink
\* of a 304 prelude (with cookies and a set-cookie header) and closed it.
NullBodyWitness ==
    /\ pc = "done"
    /\ handlerState = "returned"
    /\ Len(sinks) = 1
    /\ sinks[1].prelude.statusCode = 304
    /\ Len(sinks[1].written) = 2
    /\ sinks[1].callbacks = 2
    /\ sinks[1].state = "ended"
    /\ "body" \notin DOMAIN contextRes

\* C2: when the only writeHeaders call of the request had a status outside
\* {101, 204, 205, 304} and its sink was closed (and the handler's exception,
\* if any, is not yet answered), context.res has the prelude's status and
\* headers and, as body, the UTF-8 text of the chunks concatenated in write
\* order (the chunks 'f\xC3', '\xA9' give the two characters U+0066 U+00E9).
BodyIsConcatenationOfChunks ==
    ( /\ Len(sinks) = 1
      /\ IsBodySink(1)
      /\ sinks[1].state = "finished"
      /\ ~Caught )
    => /\ DOMAIN contextRes = {"status", "headers", "body"}
       /\ contextRes.status = sinks[1].prelude.statusCode
       /\ CarriesPreludeHeaders(contextRes.headers, sinks[1].prelude)
       /\ contextRes.body = Utf8Decode(BufferConcat(sinks[1].written))
       /\ sinks[1].written = << <<102, 195>>, <<169>> >>
             => contextRes.body = <<102, 233>>

\* C2 witness: status 200, the two chunks written in that order, closed,
\* the wrapper has returned.
BodyWitness ==
    /\ pc = "done"
    /\ Len(sinks) = 1
    /\ sinks[1].prelude.statusCode = 200
    /\ sinks[1].written = << <<102, 195>>, <<169>> >>
    /\ sinks[1].state = "finished"
    /\ contextRes.status = 200
    /\ contextRes.body = <<102, 233>>

\* C3 as stated: whenever writeHeaders was called with a status outside the
\* null-body set, the wrapper has not returned unless a sink's close has
\* assigned the response, and by then the resolver was called exactly once.
ReturnsOnlyAfterClose ==
    ( /\ pc = "done"
      /\ \E i \in 1..Len(sinks) : IsBodySink(i) )
    => /\ \E i \in 1..Len(sinks) : IsBodySink(i) /\ sinks[i].state = "finished"
       /\ ResolveCalls(promises) = 1

\* C3 amended: when writeHeaders was called exactly once, with a status
\* outside the null-body set, and the handler returned normally, the wrapper
\* has returned only after the sink's close assigned the response to
\* context.res, and the resolver of the completion promise was called
\* exactly once.
ReturnsOnlyAfterCloseWhenHandlerReturns ==
    ( /\ pc = "done"
      /\ handlerState = "returned"
      /\ Len(sinks) = 1
      /\ IsBodySink(1) )
    => /\ sinks[1].state = "finished"
       /\ promises = <<1>>
       /\ contextRes # Undefined
       /\ contextRes.status = sinks[1].prelude.statusCode
       /\ "body" \in DOMAIN contextRes

\* C3 witness: the wrapper returned after the handler returned and the one
\* buffering sink was closed.
AwaitedStreamWitness ==
    /\ pc = "done"
    /\ handlerState = "returned"
    /\ Len(sinks) = 1
    /\ IsBodySink(1)
    /\ sinks[1].state = "finished"
    /\ promises = <<1>>

\* C4: when the wrapper has returned after the handler returned normally,
\* context.res is the fallback (200, content-type text/html, empty body) if
\* writeHeaders was never called, and otherwise it is the response one of the
\* writeHeaders calls produced, not the fallback put over it.
FallbackOnlyWithoutResponse ==
    ( pc = "done" /\ handlerState = "returned" )
    => IF sinks = <<>>
       THEN contextRes =
               [status |-> 200,
                headers |-> ("content-type" :> <<"text/html">>),
                body |-> <<>>]
       ELSE \E i \in 1..Len(sinks) :
               \/ IsNullBodySink(i) /\ contextRes = NullBodyResponse(sinks[i].prelude)
               \/ /\ IsBodySink(i)
                  /\ sinks[i].state = "finished"
                  /\ contextRes = FinalResponse(sinks[i])

\* C4 witness: the handler returned without a writeHeaders call and the
\* wrapper returned with the fallback.
FallbackWitness ==
    /\ pc = "done"
    /\ handlerState = "returned"
    /\ sinks = <<>>
    /\ contextRes # Undefined
    /\ contextRes.status = 200
    /\ contextRes.body = <<>>

\* The JSON body has property k / the value of property k is v.
HasProperty(body, k) == \E n \in 1..Len(body) : body[n][1] = k
PropertyIs(body, k, v) ==
    \E n \in 1..Len(body) : body[n][1] = k /\ body[n][2] = [string |-> v]

StackOnlyInDevelopment ==
    ( Caught /\ env.NODE_ENV # "development" )
    => ~HasProperty(contextRes.body, "stack")

\* The close of a buffering sink has assigned context.res.
Finalized ==
    \E i \in 1..Len(sinks) : IsBodySink(i) /\ sinks[i].state = "finished"

Converted == internalEvent # Undefined

UnderNextStatic(p) == StartsWith(p, <<"/", "_next", "/", "static", "/">>)
UnderNextData(p) == StartsWith(p, <<"/", "_next", "/", "data", "/">>)

\* The tokens of a header value.
Directives(value) == {value[k] : k \in 1..Len(value)}

\* C8: a converted request whose path matches a static-asset pattern has been
\* answered with a 301 whose Location is
\* https://<storage account>.blob.core.windows.net/assets<path>, the handler
\* was not invoked and no sink or completion promise exists; and for a path
\* under /_next/static/ that response's Cache-Control contains immutable.
StaticAssetRedirectsToBlob ==
    Converted =>
       /\ isStaticAssetRequest(internalEvent.rawPath) =>
             /\ pc = "done"
             /\ contextRes # Undefined
             /\ contextRes.status = 301
             /\ contextRes.headers["Location"] =
                   <<"https://", env.AZURE_STORAGE_ACCOUNT_NAME,
                     ".blob.core.windows.net/assets">> \o request.pathname
             /\ "body" \notin DOMAIN contextRes
             /\ handlerState = "notInvoked"
             /\ sinks = <<>>
             /\ promises = <<>>
       /\ UnderNextStatic(request.pathname) =>
             /\ contextRes # Undefined
             /\ contextRes.status = 301
             /\ "immutable" \in Directives(contextRes.headers["Cache-Control"])

\* C8 witness: /_next/static/chunk.js was redirected without the handler.
StaticAssetWitness ==
    /\ pc = "done"
    /\ request.pathname = <<"/", "_next", "/", "static", "/", "chunk", ".", "js">>
    /\ contextRes.status = 301
    /\ handlerState = "notInvoked"

\* C9 as stated: a request under /_next/data/ gets no 301 and reaches the
\* handler.
NextDataReachesHandler ==
    ( Converted /\ UnderNextData(internalEvent.rawPath) )
    => /\ contextRes # Undefined => contextRes.status # 301
       /\ handlerState # "notInvoked"

\* C10 as stated, for the paths outside /_next/data/: a redirect's
\* Cache-Control has immutable exactly for the paths under /_next/static/,
\* and must-revalidate for every other path (favicon, robots, sitemap,
\* top-level asset files).
CacheControlDependsOnPath ==
    ( /\ Converted
      /\ ~UnderNextData(internalEvent.rawPath)
      /\ contextRes # Undefined
      /\ contextRes.status = 301 )
    => /\ "immutable" \in Directives(contextRes.headers["Cache-Control"])
             <=> UnderNextStatic(internalEvent.rawPath)
       /\ ~UnderNextStatic(internalEvent.rawPath)
             => "must-revalidate" \in Directives(contextRes.headers["Cache-Control"])

\* ============================================================ converter
\* convertFromAzureHttp and convertToAzureHttp, applied to bounded inputs.

MaxPathLen == 3
MaxParams == 3
MaxCookieLen == 4

\* Every sequence over S of length at most n.
SeqsUpTo(S, n) == UNION { [1..k -> S] : k \in 0..n }

\* Strings handed to normalizePath, as sequences of "/" and a name.
PathTokens == {"/", "x"}
RawPathnames == SeqsUpTo(PathTokens, MaxPathLen)

\* new URL(request.url).pathname of an http URL: never empty, begins with "/".
UrlPathnames == { p \in RawPathnames : p # <<>> /\ p[1] = "/" }

\* url.searchParams: (key, value) pairs in the order of the query string.
QueryKeys == {"a", "b"}
QueryValues == {"", "1", "2"}
SearchParams == SeqsUpTo(QueryKeys \X QueryValues, MaxParams)

\* Cookie header values, as sequences of separators and names.
CookieTokens == {";", "=", " ", "k", "v"}
ExampleCookieHeader ==
    << "k1", "=", "v1", ";", " ", "k2", "=", "a", "=", "b", "=", "c" >>
CookieHeaders == SeqsUpTo(CookieTokens, MaxCookieLen) \cup {ExampleCookieHeader}

\* request.headers entries besides the cookie ones.
OtherHeaderLists ==
    { << <<"X-Real-IP", <<"10.0.0.1">> >> >>,
      << <<"X-Forwarded-For", <<"10.0.0.2">> >>, <<"X-Real-IP", <<"10.0.0.1">> >> >>,
      << <<"X-Forwarded-For", <<>> >>, <<"Accept", <<"*/*">> >> >> }

BaseRequest ==
    [ pathname |-> <<"/">>, searchParams |-> <<>>, headers |-> <<>>,
      method |-> "GET", body |-> <<>> ]

\* The requests convertFrom is applied to: one part of the request varies at
\* a time.
HttpRequests ==
    { [BaseRequest EXCEPT !.pathname = p] : p \in UrlPathnames }
    \cup { [BaseRequest EXCEPT !.searchParams = q] : q \in SearchParams }
    \cup { [BaseRequest EXCEPT !.headers = << <<n, h>> >>] :
             n \in {"Cookie", "cookie"}, h \in CookieHeaders }
    \cup { [BaseRequest EXCEPT !.headers = hs, !.method = m, !.body = b] :
             hs \in OtherHeaderLists, m \in {"HEAD", "POST"}, b \in Chunks }

\* A JavaScript value used as a condition: undefined and "" are falsy.
Truthy(v) ==
    IF v = Undefined THEN FALSE
    ELSE IF "s" \in DOMAIN v THEN v.s # ""
    ELSE TRUE

\* Array.isArray(v)
IsArray(v) == "list" \in DOMAIN v

\* The body of url.searchParams.forEach: a string is [s |-> ...], an array
\* [list |-> ...].
RECURSIVE AccumulateQuery(_, _)
AccumulateQuery(query, params) ==
    IF params = <<>> THEN query
    ELSE LET key == params[1][1]
             value == params[1][2]
             existing == IF key \in DOMAIN query THEN query[key] ELSE Undefined
             updated ==
                 IF Truthy(existing)
                 THEN IF IsArray(existing)
                      THEN [list |-> Append(existing.list, value)]
                      ELSE [list |-> <<existing.s, value>>]
                 ELSE [s |-> value]
         IN  AccumulateQuery(
                 [k \in DOMAIN query \cup {key} |->
                     IF k = key THEN updated ELSE query[k]],
                 Tail(params))

\* key.toLowerCase() on the header names of the inputs.
ToLowerCase(name) ==
    CASE name = "Cookie" -> "cookie"
      [] name = "X-Real-IP" -> "x-real-ip"
      [] name = "X-Forwarded-For" -> "x-forwarded-for"
      [] name = "Accept" -> "accept"
      [] OTHER -> name

\* for (const [key, value] of Object.entries(request.headers)) if (value) ...
\* A header value is a string, falsy when empty.
RECURSIVE LowercaseHeaders(_, _)
LowercaseHeaders(headers, entries) ==
    IF entries = <<>> THEN headers
    ELSE LET key == ToLowerCase(entries[1][1])
             value == entries[1][2]
         IN  LowercaseHeaders(
                 IF value # <<>>
                 THEN [k \in DOMAIN headers \cup {key} |->
                          IF k = key THEN value ELSE headers[k]]
                 ELSE headers,
                 Tail(entries))

\* The index of the first sep in s, 0 when there is none.
IndexOf(s, sep) ==
    IF \E i \in 1..Len(s) : s[i] = sep
    THEN CHOOSE i \in 1..Len(s) : s[i] = sep /\ \A j \in 1..(i - 1) : s[j] # sep
    ELSE 0

\* s.split(sep): the pieces between the separators, at least one piece.
RECURSIVE Split(_, _)
Split(s, sep) ==
    IF IndexOf(s, sep) = 0 THEN <<s>>
    ELSE <<SubSeq(s, 1, IndexOf(s, sep) - 1)>>
         \o Split(SubSeq(s, IndexOf(s, sep) + 1, Len(s)), sep)

\* parts.join(sep), the parts being strings
RECURSIVE JoinStrings(_, _)
JoinStrings(parts, sep) ==
    IF parts = <<>> THEN <<>>
    ELSE IF Len(parts) = 1 THEN parts[1]
    ELSE parts[1] \o <<sep>> \o JoinStrings(Tail(parts), sep)

\* s.trim()
RECURSIVE Trim(_)
Trim(s) ==
    IF s # <<>> /\ s[1] = " " THEN Trim(Tail(s))
    ELSE IF s # <<>> /\ s[Len(s)] = " " THEN Trim(SubSeq(s, 1, Len(s) - 1))
    ELSE s

\* Mutant: only the text up to the second "=" is kept as the value.
RECURSIVE ParseCookies_FirstPartOnly(_, _)
ParseCookies_FirstPartOnly(cookies, segments) ==
    IF segments = <<>> THEN cookies
    ELSE LET parts == Split(Trim(segments[1]), "=")
             key == parts[1]
             valueParts == Tail(parts)
         IN  ParseCookies_FirstPartOnly(
                 IF key # <<>>
                 THEN [k \in DOMAIN cookies \cup {key} |->
                          IF k = key
                          THEN IF valueParts = <<>> THEN <<>> ELSE valueParts[1]
                          ELSE cookies[k]]
                 ELSE cookies,
                 Tail(segments))

\* cookieHeader.split(";").forEach(cookie => { const [key, ...valueParts] =
\* cookie.trim().split("="); if (key) cookies[key] = valueParts.join("="); })
RECURSIVE ParseCookies(_, _)
ParseCookies(cookies, segments) ==
    IF segments = <<>> THEN cookies
    ELSE LET parts == Split(Trim(segments[1]), "=")
             key == parts[1]
             valueParts == Tail(parts)
         IN  ParseCookies(
                 IF key # <<>>
                 THEN [k \in DOMAIN cookies \cup {key} |->
                          IF k = key THEN JoinStrings(valueParts, "=")
                          ELSE cookies[k]]
                 ELSE cookies,
                 Tail(segments))

\* An object literal {} with no keys.
EmptyObject == [k \in {} |-> Undefined]

\* convertFromAzureHttp(request); the url field repeats request.url and is
\* left out.
convertFromAzureHttp(req) ==
    LET headers == LowercaseHeaders(EmptyObject, req.headers)
        Header(name) == IF name \in DOMAIN headers THEN headers[name] ELSE <<>>
    IN  [ type |-> "core",
          method |-> req.method,
          rawPath |-> normalizePath(req.pathname),
          body |-> IF req.method # "GET" /\ req.method # "HEAD"
                   THEN [bytes |-> req.body] ELSE Undefined,
          headers |-> headers,
          query |-> AccumulateQuery(EmptyObject, req.searchParams),
          cookies |-> IF Header("cookie") # <<>>
                      THEN ParseCookies(EmptyObject, Split(Header("cookie"), ";"))
                      ELSE EmptyObject,
          remoteAddress |->
              IF Header("x-forwarded-for") # <<>> THEN Header("x-forwarded-for")
              ELSE IF Header("x-real-ip") # <<>> THEN Header("x-real-ip")
              ELSE <<"::1">> ]

ResultStatuses == {101, 200, 204, 205, 304, 404}
ResultHeaderLists ==
    { <<>>,
      << <<"content-type", [s |-> "text/html"]>>, <<"x-powered-by", Null>> >>,
      << <<"set-cookie", [list |-> <<"a=1", "b=2">>]>>, <<"etag", Undefined>> >> }
ResultBodies ==
    {Undefined} \cup { [chunks |-> c] : c \in SeqsUpTo(Chunks, MaxChunks) }
InternalResults ==
    [ statusCode : ResultStatuses, headers : ResultHeaderLists,
      body : ResultBodies, isBase64Encoded : BOOLEAN ]

\* The normalisation of result.headers: null and undefined are dropped, an
\* array is joined with ", ", anything else is String(value).
RECURSIVE NormalizeHeaders(_, _)
NormalizeHeaders(headers, entries) ==
    IF entries = <<>> THEN headers
    ELSE LET key == entries[1][1]
             value == entries[1][2]
         IN  NormalizeHeaders(
                 IF value = Null \/ value = Undefined THEN headers
                 ELSE [k \in DOMAIN headers \cup {key} |->
                          IF k # key THEN headers[k]
                          ELSE IF IsArray(value) THEN Join(value.list, ", ")
                          ELSE <<value.s>>],
                 Tail(entries))

\* buffer.toString("base64"): the index in the base64 alphabet of each output
\* character, 64 standing for the padding "=".
RECURSIVE Base64Encode(_)
Base64Encode(b) ==
    IF b = <<>> THEN <<>>
    ELSE IF Len(b) = 1
         THEN << b[1] \div 4, (b[1] % 4) * 16, 64, 64 >>
    ELSE IF Len(b) = 2
         THEN << b[1] \div 4, (b[1] % 4) * 16 + b[2] \div 16, (b[2] % 16) * 4, 64 >>
    ELSE << b[1] \div 4, (b[1] % 4) * 16 + b[2] \div 16,
            (b[2] % 16) * 4 + b[3] \div 64, b[3] % 64 >>
         \o Base64Encode(SubSeq(b, 4, Len(b)))

\* convertToAzureHttp(result): the body stream is read whenever there is one.
convertToAzureHttp(res) ==
    [ status |-> res.statusCode,
      headers |-> NormalizeHeaders(EmptyObject, res.headers),
      body |-> IF res.body # Undefined
               THEN [s |-> IF res.isBase64Encoded
                           THEN Base64Encode(BufferConcat(res.body.chunks))
                           ELSE Utf8Decode(BufferConcat(res.body.chunks))]
               ELSE Undefined ]

\* The wrapper is not invoked while the converter, the caches or the image
\* handler are exercised on their own; a converter run makes one call.
BackendInit(envs) ==
    /\ pc = "idle"
    /\ request = Undefined
    /\ env \in envs
    /\ internalEvent = Undefined
    /\ contextRes = Undefined
    /\ handlerState = "notInvoked"
    /\ thrown = NoError
    /\ streamFinished = 0
    /\ resolveStream = 0
    /\ promises = <<>>
    /\ sinks = <<>>
    /\ rejectedWrites = 0
    /\ op = Undefined
    /\ result = Undefined
    /\ storage = EmptyStorage
    /\ ModuleInit

\* normalizePath(p) is called.
NormalizePath(p) ==
    /\ op = Undefined
    /\ op' = [name |-> "normalizePath", pathname |-> p]
    /\ result' = [returned |-> normalizePath(p)]
    /\ UNCHANGED << wrapperVars, bindingVars, tailVars, env, storage >>

\* converter.convertFrom(req) is called.
ConvertFrom(req) ==
    /\ op = Undefined
    /\ op' = [name |-> "convertFrom", request |-> req]
    /\ result' = [returned |-> convertFromAzureHttp(req)]
    /\ UNCHANGED << wrapperVars, bindingVars, tailVars, env, storage >>

\* converter.convertTo(res) is called.
ConvertTo(res) ==
    /\ op = Undefined
    /\ op' = [name |-> "convertTo", result |-> res]
    /\ result' = [returned |-> convertToAzureHttp(res)]
    /\ UNCHANGED << wrapperVars, bindingVars, tailVars, env, storage >>

ConverterInit == BackendInit({[NODE_ENV |-> "production"]})

ConverterNext ==
    \/ \E p \in RawPathnames : NormalizePath(p)
    \/ \E req \in HttpRequests : ConvertFrom(req)
    \/ \E res \in InternalResults : ConvertTo(res)

ConverterSpec == ConverterInit /\ [][ConverterNext]_vars

\* The call last made is the one called name.
Called(name) == op # Undefined /\ op.name = name

\* ------------------------------------------------- converter properties

\* The path handed to normalizePath by the call last made, and the path
\* that came out.
PathIn == IF Called("normalizePath") THEN op.pathname ELSE op.request.pathname
PathOut ==
    IF Called("normalizePath") THEN result.returned ELSE result.returned.rawPath

\* C11 as stated: every canonical path is non-empty and begins with exactly
\* one "/".
RawPathBeginsWithExactlyOneSlash ==
    (Called("normalizePath") \/ Called("convertFrom")) =>
        /\ PathOut # <<>>
        /\ PathOut[1] = "/"
        /\ Len(PathOut) >= 2 => PathOut[2] # "/"

\* C11, amended: the canonical path is non-empty and begins with "/"; the
\* empty path and "/" give "/"; a path without a leading "/" gets exactly one
\* prepended; a path that begins with "/" is returned as it is, a second
\* leading "/" included.
RawPathBeginsWithSlash ==
    (Called("normalizePath") \/ Called("convertFrom")) =>
        /\ PathOut # <<>>
        /\ PathOut[1] = "/"
        /\ PathIn \in {<<>>, <<"/">>} => PathOut = <<"/">>
        /\ (PathIn # <<>> /\ PathIn[1] # "/") =>
               /\ PathOut = <<"/">> \o PathIn
               /\ PathOut[2] # "/"
        /\ (PathIn # <<>> /\ PathIn[1] = "/") => PathOut = PathIn

RawPathWitness ==
    /\ Called("normalizePath")
    /\ op.pathname = <<"x">>
    /\ result.returned = <<"/", "x">>

\* The values of key in params, in the order of the query string.
RECURSIVE ValuesOf(_, _)
ValuesOf(params, key) ==
    IF params = <<>> THEN <<>>
    ELSE IF params[1][1] = key
         THEN <<params[1][2]>> \o ValuesOf(Tail(params), key)
         ELSE ValuesOf(Tail(params), key)

\* C12: a key that occurs once maps to its value, a key that occurs n >= 2
\* times maps to the list of its n values in the order of the query string,
\* whatever the values are.
QueryKeepsEveryOccurrence ==
    Called("convertFrom") =>
        \A k \in QueryKeys :
            LET values == ValuesOf(op.request.searchParams, k)
                query == result.returned.query
            IN  /\ Len(values) = 0 => k \notin DOMAIN query
                /\ Len(values) = 1 => (k \in DOMAIN query /\ query[k] = [s |-> values[1]])
                /\ Len(values) >= 2 => (k \in DOMAIN query /\ query[k] = [list |-> values])

\* The name and the value of one segment of a Cookie header: the text before
\* and after its first "=".
CookieName(segment) ==
    LET t == Trim(segment)
    IN  IF IndexOf(t, "=") = 0 THEN t ELSE SubSeq(t, 1, IndexOf(t, "=") - 1)
CookieValue(segment) ==
    LET t == Trim(segment)
    IN  IF IndexOf(t, "=") = 0 THEN <<>> ELSE SubSeq(t, IndexOf(t, "=") + 1, Len(t))

\* C13: the cookies are the ";"-separated segments of the Cookie header,
\* trimmed; the name is the text before the first "=", the value everything
\* after it, later "=" kept; "k1=v1; k2=a=b=c" gives k1 -> v1, k2 -> a=b=c.
CookiesSplitAtFirstEquals ==
    (Called("convertFrom") /\ "cookie" \in DOMAIN result.returned.headers) =>
        LET header == result.returned.headers["cookie"]
            segments == Split(header, ";")
            cookies == result.returned.cookies
        IN  /\ DOMAIN cookies =
                   { CookieName(segments[i]) : i \in 1..Len(segments) } \ {<<>>}
            /\ \A i \in 1..Len(segments) :
                   ( /\ CookieName(segments[i]) # <<>>
                     /\ \A j \in (i + 1)..Len(segments) :
                            CookieName(segments[j]) # CookieName(segments[i]) )
                   => cookies[CookieName(segments[i])] = CookieValue(segments[i])
            /\ header = ExampleCookieHeader =>
                   cookies = (<<"k1">> :> <<"v1">>)
                             @@ (<<"k2">> :> <<"a", "=", "b", "=", "c">>)

CookiesWitness ==
    /\ Called("convertFrom")
    /\ op.request.headers = << <<"Cookie", ExampleCookieHeader>> >>
    /\ result.returned.cookies[<<"k2">>] = <<"a", "=", "b", "=", "c">>

\* C14: convertTo returns no body (none at all, or at most the empty string)
\* for a status of the null-body set, even when the InternalResult carries a
\* body stream.
ConvertToOmitsNullBody ==
    (Called("convertTo") /\ op.result.statusCode \in NullBodySet) =>
        \/ result.returned.body = Undefined
        \/ result.returned.body.s = <<>>

\* ======================================================= image cache key

\* event.query of an image request: a parameter is absent, a string
\* [s |-> ...] or, when repeated, an array [list |-> ...].
ImageQueries ==
    { [url |-> [s |-> "/a.png"], w |-> [s |-> "640"], q |-> [s |-> "75"]],
      [url |-> [s |-> "/a.png"], w |-> [s |-> "640"], q |-> Undefined],
      [url |-> [s |-> "/a.png"], w |-> [s |-> "640"], q |-> [s |-> "50"]],
      [url |-> [list |-> <<"/a.png", "/b.png">>], w |-> [s |-> "640"], q |-> [s |-> "75"]],
      [url |-> [s |-> "/b.png"], w |-> [s |-> ""], q |-> [list |-> <<"75", "50">>]] }

\* Array.isArray(v) ? v[0] : v || fallback
FirstOr(v, fallback) ==
    IF v = Undefined THEN fallback
    ELSE IF IsArray(v) THEN v.list[1]
    ELSE IF v.s # "" THEN v.s
    ELSE fallback

\* createHash("sha256").update(url).digest("hex").substring(0, 16), for the
\* urls of ImageQueries and the empty string.
Sha256Hex16(url) ==
    CASE url = "/a.png" -> "7bd33524f54c6e2a"
      [] url = "/b.png" -> "c1062b906bb255d9"
      [] url = "" -> "e3b0c44298fc1c14"

computeCacheKey_WithoutQuality(query) ==
    << Sha256Hex16(FirstOr(query.url, "")), "/w", FirstOr(query.w, "0"),
       "_q", "75", ".cache" >>

\* computeCacheKey(event): `${hash}/w${width}_q${quality}.cache`
computeCacheKey(query) ==
    << Sha256Hex16(FirstOr(query.url, "")), "/w", FirstOr(query.w, "0"),
       "_q", FirstOr(query.q, "75"), ".cache" >>

\* =============================================================== caches
\* The incremental cache (blobs), the tag cache (table rows), the
\* revalidation queue and the optimized-images lookup, against one storage
\* account whose calls can fail.

MaxEntries == 2

\* Date.now(), later than every timestamp of the inputs.
DateNow == 3

\* process.env of the function app: the build identifier, the container name
\* and the credentials. "" is a variable that is not set to anything.
CacheEnvs ==
    { [ NEXT_BUILD_ID |-> "A", AZURE_STORAGE_CONTAINER_NAME |-> "cc",
        AZURE_STORAGE_CONNECTION_STRING |-> "conn", AZURE_STORAGE_ACCOUNT_KEY |-> "" ],
      [ NEXT_BUILD_ID |-> "", AZURE_STORAGE_CONTAINER_NAME |-> "",
        AZURE_STORAGE_CONNECTION_STRING |-> "", AZURE_STORAGE_ACCOUNT_KEY |-> "key" ],
      [ NEXT_BUILD_ID |-> "A", AZURE_STORAGE_CONTAINER_NAME |-> "cc",
        AZURE_STORAGE_CONNECTION_STRING |-> "", AZURE_STORAGE_ACCOUNT_KEY |-> "" ] }

\* The build identifiers a deployment sets.
BuildIds == {"A", "B"}

\* Logical keys, tags and paths, as sequences of "/" and names; a key may
\* begin with the name of a build.
CacheKeys == { <<"x">>, <<"A", "/", "x">> }
CacheTypes == {"cache", "fetch", "composable"}
Tags == { <<"t">>, <<"B", "/", "t">> }
Paths == { <<"/", "p">>, <<"/", "q">> }
TagItems ==
    { [tag |-> <<"t">>, path |-> <<"/", "p">>, revalidatedAt |-> 1],
      [tag |-> <<"t">>, path |-> <<"/", "q">>, revalidatedAt |-> 2],
      [tag |-> <<"B", "/", "t">>, path |-> <<"/", "p">>, revalidatedAt |-> 2] }
TagLists == SeqsUpTo(TagItems, 2)
LastModifiedArgs == { [given |-> FALSE], [given |-> TRUE, value |-> 1] }
\* The blob names of two image requests that differ in the quality.
ImageKeys ==
    { computeCacheKey([url |-> [s |-> "/a.png"], w |-> [s |-> "640"], q |-> q]) :
        q \in {Undefined, [s |-> "50"]} }

\* A storage call succeeds or throws.
Faults == {"none", "error"}

\* A string as a sequence of pieces: the empty string has none.
Str(x) == IF x = "" THEN <<>> ELSE <<x>>

\* getAzureConfig().storage.containerName
containerName(e) ==
    IF e.AZURE_STORAGE_CONTAINER_NAME # "" THEN e.AZURE_STORAGE_CONTAINER_NAME
    ELSE "nextjs-cache"

\* The constructors of the blob and table clients: a connection string, or
\* an account name and key.
ClientConfigured(e) ==
    e.AZURE_STORAGE_CONNECTION_STRING # "" \/ e.AZURE_STORAGE_ACCOUNT_KEY # ""

\* The constructor of the queue client: a connection string only.
QueueConfigured(e) == e.AZURE_STORAGE_CONNECTION_STRING # ""

\* Mutant: the entry kind is appended to fetch keys too.
buildBlobKey_SuffixOnFetch(e, key, cacheType) ==
    JoinStrings(
        SelectSeq(<< Str(containerName(e)),
                     IF cacheType = "fetch" THEN <<"__fetch">> ELSE <<>>,
                     Str(e.NEXT_BUILD_ID),
                     key \o <<".", cacheType>> >>,
                  LAMBDA segment : segment # <<>>),
        "/")

\* [prefix, type, NEXT_BUILD_ID, key or `${key}.${cacheType}`]
\*     .filter(Boolean).join("/")
buildBlobKey(e, key, cacheType) ==
    JoinStrings(
        SelectSeq(<< Str(containerName(e)),
                     IF cacheType = "fetch" THEN <<"__fetch">> ELSE <<>>,
                     Str(e.NEXT_BUILD_ID),
                     IF cacheType = "fetch" THEN key ELSE key \o <<".", cacheType>> >>,
                  LAMBDA segment : segment # <<>>),
        "/")

\* Mutant: the build identifier is left out of the tag keys.
buildKey_WithoutBuildId(e, key) == <<"/">> \o key

\* `${NEXT_BUILD_ID}/${key}`
buildKey(e, key) == Str(e.NEXT_BUILD_ID) \o <<"/">> \o key

\* s.replace(pattern, replacement) with a string pattern: the first
\* occurrence only.
ReplaceFirst(s, pattern, replacement) ==
    LET n == Len(pattern)
        found == { i \in 1..(Len(s) - n + 1) : SubSeq(s, i, i + n - 1) = pattern }
    IN  IF found = {} THEN s
        ELSE LET i == CHOOSE i \in found : \A j \in found : i <= j
             IN  SubSeq(s, 1, i - 1) \o replacement \o SubSeq(s, i + n, Len(s))

\* Every occurrence of pattern removed from s.
RECURSIVE RemoveAll(_, _)
RemoveAll(s, pattern) ==
    IF ReplaceFirst(s, pattern, <<>>) = s THEN s
    ELSE RemoveAll(ReplaceFirst(s, pattern, <<>>), pattern)

\* Mutant: every occurrence of the build identifier is removed, not the
\* first only.
StripBuildId_Everywhere(e, key) == RemoveAll(key, Str(e.NEXT_BUILD_ID) \o <<"/">>)

\* key.replace(`${NEXT_BUILD_ID}/`, "")
StripBuildId(e, key) == ReplaceFirst(key, Str(e.NEXT_BUILD_ID) \o <<"/">>, <<>>)

\* JSON.parse of the text JSONStringify gives: the object of its members.
JSONParse(text) ==
    [ k \in { text[i][1] : i \in 1..Len(text) } |->
        LET last == CHOOSE i \in 1..Len(text) :
                        /\ text[i][1] = k
                        /\ \A j \in (i + 1)..Len(text) : text[j][1] # k
        IN  text[last][2] ]

\* The value the render pipeline caches for (key, cacheType) under build
\* identifier b; its html names the three, so that a read shows which write
\* it came from.
CacheValue(b, key, cacheType) ==
    << <<"type", [string |-> "page"]>>,
       <<"html", [string |-> <<b, key, cacheType>>]>>,
       <<"revalidate", Undefined>> >>

\* How many entries the storage account holds.
StorageSize(st) ==
    Cardinality(st.blobs) + Cardinality(st.rows) + Len(st.queue)
    + Cardinality(st.images)

\* The blob called name, or none.
BlobsNamed(blobs, name) == { b \in blobs : b.name = name }

\* upload(): the blob called name is created or replaced.
Upload(blobs, name, content) ==
    (blobs \ BlobsNamed(blobs, name)) \cup { [name |-> name, content |-> content] }

\* upsertEntity(entity, "Merge"): the row with these keys is created or
\* updated. written is no column of the table: it records the tag, the path
\* and the build identifier of the write that last set the row.
UpsertEntity(rows, e, item) ==
    { r \in rows : ~(r.partitionKey = buildKey(e, item.tag)
                     /\ r.rowKey = buildKey(e, item.path)) }
    \cup { [ partitionKey |-> buildKey(e, item.tag),
             rowKey |-> buildKey(e, item.path),
             revalidatedAt |-> item.revalidatedAt,
             written |-> [tag |-> item.tag, path |-> item.path,
                          build |-> e.NEXT_BUILD_ID] ] }

\* The loop of writeTags over the first n items.
RECURSIVE UpsertAll(_, _, _, _)
UpsertAll(rows, e, items, n) ==
    IF n = 0 THEN rows
    ELSE UpsertEntity(UpsertAll(rows, e, items, n - 1), e, items[n])

\* The outcome of a call: what it returned or threw, and whether it wrote
\* the failure to the log.
Returned(value, logged) == [returned |-> value, logged |-> logged]
Threw(logged) == [threw |-> "StorageError", logged |-> logged]

\* Mutant: a failed download is rethrown.
GetOutcome_Rethrows(e, blobs, key, cacheType, fault) ==
    IF fault = "error" \/ ~ClientConfigured(e) THEN Threw(TRUE)
    ELSE IF BlobsNamed(blobs, buildBlobKey(e, key, cacheType)) = {}
         THEN Returned(Null, FALSE)
    ELSE LET blob == CHOOSE b \in BlobsNamed(blobs, buildBlobKey(e, key, cacheType)) : TRUE
         IN  Returned([value |-> JSONParse(blob.content)], FALSE)

\* AzureBlobIncrementalCache.get: a missing blob (404) is a silent miss, any
\* other failure is logged and is a miss too. The lastModified of the blob is
\* left out.
GetOutcome(e, blobs, key, cacheType, fault) ==
    IF fault = "error" \/ ~ClientConfigured(e) THEN Returned(Null, TRUE)
    ELSE IF BlobsNamed(blobs, buildBlobKey(e, key, cacheType)) = {}
         THEN Returned(Null, FALSE)
    ELSE LET blob == CHOOSE b \in BlobsNamed(blobs, buildBlobKey(e, key, cacheType)) : TRUE
         IN  Returned([value |-> JSONParse(blob.content)], FALSE)

\* The storage call of this process fails: the fault, or a client the
\* constructor never built (calling it throws a TypeError inside the try).
Failed(e, fault) == fault = "error" \/ ~ClientConfigured(e)

\* AzureTableTagCache.getByTag: the rows of the partition, the build
\* identifier removed from each row key. The list is modelled by its elements.
GetByTagOutcome(e, rows, tag, fault) ==
    IF Failed(e, fault) THEN Returned({}, TRUE)
    ELSE Returned({ StripBuildId(e, r.rowKey) :
                      r \in { r \in rows : r.partitionKey = buildKey(e, tag) } },
                  FALSE)

\* AzureTableTagCache.getByPath
GetByPathOutcome(e, rows, path, fault) ==
    IF Failed(e, fault) THEN Returned({}, TRUE)
    ELSE Returned({ StripBuildId(e, r.partitionKey) :
                      r \in { r \in rows : r.rowKey = buildKey(e, path) } },
                  FALSE)

\* lastModified ?? fallback
OrElse(arg, fallback) == IF arg.given THEN arg.value ELSE fallback

\* AzureTableTagCache.getLastModified. The filter names the property
\* RevalidatedAt, the rows carry revalidatedAt: a row without the named
\* property does not match.
GetLastModifiedOutcome(e, rows, path, lastModified, fault) ==
    IF Failed(e, fault) THEN Returned(OrElse(lastModified, DateNow), TRUE)
    ELSE LET entities ==
                 { r \in rows :
                     /\ r.rowKey = buildKey(e, path)
                     /\ "RevalidatedAt" \in DOMAIN r
                     /\ r["RevalidatedAt"] > OrElse(lastModified, 0) }
         IN  IF \E r \in entities : r.revalidatedAt # 0
             THEN Returned(-1, FALSE)
             ELSE Returned(OrElse(lastModified, DateNow), FALSE)

\* getCachedImage of the image wrapper: the stored bytes, or null when the
\* blob does not exist or any call fails; nothing is logged.
GetCachedImageOutcome(images, cacheKey, fault) ==
    IF fault = "error" THEN Returned(Null, FALSE)
    ELSE IF \E img \in images : img.name = cacheKey
         THEN Returned([buffer |-> (CHOOSE img \in images : img.name = cacheKey).content.bytes],
                       FALSE)
         ELSE Returned(Null, FALSE)

\* A run is a history of writes and deployments that ends with the first
\* read or the first call that fails: a read leaves the storage account as
\* it is, and a failed write leaves nothing a shorter write does not.
ReadCalls == {"get", "getByTag", "getByPath", "getLastModified", "getCachedImage"}
NoReadYet ==
    IF op = Undefined \/ result = Undefined THEN TRUE
    ELSE /\ op.name \notin ReadCalls
         /\ "returned" \in DOMAIN result
         /\ ~result.logged

\* incrementalCache.get(key, cacheType)
IncrementalGet(key, cacheType, fault) ==
    /\ NoReadYet
    /\ op' = [name |-> "get", key |-> key, cacheType |-> cacheType, fault |-> fault]
    /\ result' = GetOutcome(env, storage.blobs, key, cacheType, fault)
    /\ UNCHANGED << wrapperVars, bindingVars, tailVars, env, storage >>

\* incrementalCache.set(key, value, cacheType): a failure is logged and
\* thrown again.
IncrementalSet(key, cacheType, fault) ==
    /\ NoReadYet
    /\ op' = [name |-> "set", key |-> key, cacheType |-> cacheType, fault |-> fault]
    /\ storage' =
           IF Failed(env, fault) THEN storage
           ELSE [storage EXCEPT !.blobs =
                    Upload(@, buildBlobKey(env, key, cacheType),
                           JSONStringify(CacheValue(env.NEXT_BUILD_ID, key, cacheType)))]
    /\ StorageSize(storage') <= MaxEntries
    /\ result' = IF Failed(env, fault) THEN Threw(TRUE) ELSE Returned(Undefined, FALSE)
    /\ UNCHANGED << wrapperVars, bindingVars, tailVars, env >>

\* incrementalCache.delete(key): a failure is logged and swallowed.
IncrementalDelete(key, fault) ==
    /\ NoReadYet
    /\ op' = [name |-> "delete", key |-> key, fault |-> fault]
    /\ storage' =
           IF Failed(env, fault) THEN storage
           ELSE [storage EXCEPT !.blobs = @ \ BlobsNamed(@, buildBlobKey(env, key, "cache"))]
    /\ result' = Returned(Undefined, Failed(env, fault))
    /\ UNCHANGED << wrapperVars, bindingVars, tailVars, env >>

\* tagCache.getByTag(tag)
GetByTag(tag, fault) ==
    /\ NoReadYet
    /\ op' = [name |-> "getByTag", tag |-> tag, fault |-> fault]
    /\ result' = GetByTagOutcome(env, storage.rows, tag, fault)
    /\ UNCHANGED << wrapperVars, bindingVars, tailVars, env, storage >>

\* tagCache.getByPath(path)
GetByPath(path, fault) ==
    /\ NoReadYet
    /\ op' = [name |-> "getByPath", path |-> path, fault |-> fault]
    /\ result' = GetByPathOutcome(env, storage.rows, path, fault)
    /\ UNCHANGED << wrapperVars, bindingVars, tailVars, env, storage >>

\* tagCache.getLastModified(path, lastModified)
GetLastModified(path, lastModified, fault) ==
    /\ NoReadYet
    /\ op' = [name |-> "getLastModified", path |-> path,
              lastModified |-> lastModified, fault |-> fault]
    /\ result' = GetLastModifiedOutcome(env, storage.rows, path, lastModified, fault)
    /\ UNCHANGED << wrapperVars, bindingVars, tailVars, env, storage >>

\* tagCache.writeTags(tags): the upsert of item failAt throws (0: none does);
\* the items before it are written, the failure is logged and swallowed.
WriteTags(tags, failAt) ==
    /\ NoReadYet
    /\ failAt \in 0..Len(tags)
    /\ (~ClientConfigured(env) /\ tags # <<>>) => failAt = 1
    /\ op' = [name |-> "writeTags", tags |-> tags, failAt |-> failAt]
    /\ storage' = [storage EXCEPT !.rows =
                      UpsertAll(@, env, tags, IF failAt = 0 THEN Len(tags) ELSE failAt - 1)]
    /\ StorageSize(storage') <= MaxEntries
    /\ result' = Returned(Undefined, failAt # 0)
    /\ UNCHANGED << wrapperVars, bindingVars, tailVars, env >>

\* queue.send(message): without a queue client a warning and nothing else;
\* a failure of sendMessage is logged and thrown again.
QueueSend(fault) ==
    /\ NoReadYet
    /\ op' = [name |-> "send", fault |-> fault]
    /\ storage' =
           IF QueueConfigured(env) /\ fault = "none"
           THEN [storage EXCEPT !.queue =
                    Append(@, [encoding |-> "base64",
                               json |-> JSONStringify(
                                   << <<"host", [string |-> "h"]>>,
                                      <<"url", [string |-> "/p"]>>,
                                      <<"lastModified", Undefined>>,
                                      <<"eTag", Undefined>>,
                                      <<"deduplicationId", [string |-> "d"]>>,
                                      <<"groupId", [string |-> "g"]>> >>)])]
           ELSE storage
    /\ StorageSize(storage') <= MaxEntries
    /\ result' = IF ~QueueConfigured(env) THEN Returned(Undefined, TRUE)
                 ELSE IF fault = "error" THEN Threw(TRUE)
                 ELSE Returned(Undefined, FALSE)
    /\ UNCHANGED << wrapperVars, bindingVars, tailVars, env >>

\* getCachedImage(cacheKey) of the image wrapper
GetCachedImage(cacheKey, fault) ==
    /\ NoReadYet
    /\ op' = [name |-> "getCachedImage", cacheKey |-> cacheKey, fault |-> fault]
    /\ result' = GetCachedImageOutcome(storage.images, cacheKey, fault)
    /\ UNCHANGED << wrapperVars, bindingVars, tailVars, env, storage >>

\* What setCachedImage(cacheKey, buffer, contentType) leaves in the
\* optimized-images container: the blob, unless the upload throws.
ImagesAfterStore(images, cacheKey, buffer, contentType, fault) ==
    IF fault = "error" THEN images
    ELSE Upload(images, cacheKey, [bytes |-> buffer, contentType |-> contentType])

\* setCachedImage(cacheKey, buffer, contentType) of the image wrapper: the
\* outcome goes to stderr, a failure is swallowed.
SetCachedImage(cacheKey, fault) ==
    /\ NoReadYet
    /\ op' = [name |-> "setCachedImage", cacheKey |-> cacheKey, fault |-> fault]
    /\ storage' = [storage EXCEPT !.images =
                      ImagesAfterStore(@, cacheKey, <<102>>, "image/webp", fault)]
    /\ StorageSize(storage') <= MaxEntries
    /\ result' = Returned(Undefined, fault = "error")
    /\ UNCHANGED << wrapperVars, bindingVars, tailVars, env >>

\* A new build is deployed: the processes that follow run under its build
\* identifier, against the same storage account.
Deploy(b) ==
    /\ NoReadYet
    /\ env.NEXT_BUILD_ID # b
    /\ env' = [env EXCEPT !.NEXT_BUILD_ID = b]
    /\ op' = [name |-> "deploy"]
    /\ result' = Undefined
    /\ UNCHANGED << wrapperVars, bindingVars, tailVars, storage >>

CacheInit == BackendInit(CacheEnvs)

CacheNext ==
    \/ \E k \in CacheKeys, t \in CacheTypes, f \in Faults : IncrementalGet(k, t, f)
    \/ \E k \in CacheKeys, t \in CacheTypes, f \in Faults : IncrementalSet(k, t, f)
    \/ \E k \in CacheKeys, f \in Faults : IncrementalDelete(k, f)
    \/ \E t \in Tags, f \in Faults : GetByTag(t, f)
    \/ \E p \in Paths, f \in Faults : GetByPath(p, f)
    \/ \E p \in Paths, lm \in LastModifiedArgs, f \in Faults : GetLastModified(p, lm, f)
    \/ \E tags \in TagLists, failAt \in 0..2 : WriteTags(tags, failAt)
    \/ \E f \in Faults : QueueSend(f)
    \/ \E k \in ImageKeys, f \in Faults : GetCachedImage(k, f)
    \/ \E k \in ImageKeys, f \in Faults : SetCachedImage(k, f)
    \/ \E b \in BuildIds : Deploy(b)

CacheSpec == CacheInit /\ [][CacheNext]_vars

\* ----------------------------------------------------- cache properties

\* The storage call of the call last made failed.
StorageCallFailed ==
    IF op.name = "getCachedImage" THEN op.fault = "error" ELSE Failed(env, op.fault)

\* The miss value of the read last made.
MissValue ==
    CASE op.name \in {"get", "getCachedImage"} -> Null
      [] op.name \in {"getByTag", "getByPath"} -> {}
      [] op.name = "getLastModified" ->
             IF op.lastModified.given THEN op.lastModified.value ELSE DateNow

\* C15: a cache read (get, getByTag, getByPath, getLastModified, the image
\* cache lookup) whose storage call fails returns its miss value (null, the
\* empty list, the caller's lastModified) and throws nothing.
ReadFailureIsAMiss ==
    (op # Undefined /\ op.name \in ReadCalls /\ StorageCallFailed) =>
        /\ "returned" \in DOMAIN result
        /\ result.returned = MissValue

\* A get of an entry that is there fails and answers null.
ReadFailureWitness ==
    /\ Called("get")
    /\ op.fault = "error"
    /\ BlobsNamed(storage.blobs, buildBlobKey(env, op.key, op.cacheType)) # {}
    /\ result = Returned(Null, TRUE)

\* C16: a cache write of the render pipeline (set, writeTags, send) whose
\* storage call fails logs the failure and completes normally; nothing is
\* thrown to the caller.
WriteFailureIsSwallowed ==
    /\ (Called("set") /\ op.fault = "error") =>
           ("returned" \in DOMAIN result /\ result.logged)
    /\ (Called("writeTags") /\ op.failAt # 0) =>
           ("returned" \in DOMAIN result /\ result.logged)
    /\ (Called("send") /\ QueueConfigured(env) /\ op.fault = "error") =>
           ("returned" \in DOMAIN result /\ result.logged)

\* The process environment with build identifier b.
UnderBuild(b) == [env EXCEPT !.NEXT_BUILD_ID = b]

\* C17: for two different build identifiers no blob key and no tag row key
\* made under one equals a key made under the other, whatever the logical
\* keys; a get under a build identifier returns only a value written under
\* it, and getByTag and getByPath only what a row written under it holds.
\* The keys depend on the process environment alone, which no cache call
\* changes: they are compared where a process starts and after a deployment.
BuildsAreIsolated ==
    /\ (op = Undefined \/ Called("deploy")) =>
        \A a \in BuildIds : \A b \in BuildIds \ {a} :
           /\ \A k1 \in CacheKeys, k2 \in CacheKeys, t1 \in CacheTypes, t2 \in CacheTypes :
                  buildBlobKey(UnderBuild(a), k1, t1) # buildBlobKey(UnderBuild(b), k2, t2)
           /\ \A x \in Tags \cup Paths, y \in Tags \cup Paths :
                  buildKey(UnderBuild(a), x) # buildKey(UnderBuild(b), y)
    /\ (Called("get") /\ env.NEXT_BUILD_ID \in BuildIds /\ result.returned # Null) =>
           LET writer == result.returned.value["html"].string[1]
           IN  writer \in BuildIds => writer = env.NEXT_BUILD_ID
    /\ (Called("getByTag") /\ env.NEXT_BUILD_ID \in BuildIds) =>
           \A path \in result.returned :
               \E r \in storage.rows :
                   /\ r.written.build = env.NEXT_BUILD_ID
                   /\ r.written.tag = op.tag
                   /\ r.written.path = path
    /\ (Called("getByPath") /\ env.NEXT_BUILD_ID \in BuildIds) =>
           \A tag \in result.returned :
               \E r \in storage.rows :
                   /\ r.written.build = env.NEXT_BUILD_ID
                   /\ r.written.path = op.path
                   /\ r.written.tag = tag

\* Build B reads a key that only build A wrote, and misses.
IsolationWitness ==
    /\ Called("get")
    /\ op.fault = "none"
    /\ env.NEXT_BUILD_ID = "B"
    /\ \E blob \in storage.blobs :
           blob.content = JSONStringify(CacheValue("A", op.key, op.cacheType))
    /\ result = Returned(Null, FALSE)

\* The blob key C18 describes: the segments that are there, each followed by
\* "/", then the key, with "." and the entry kind unless the kind is fetch.
ExpectedBlobKey(e, key, cacheType) ==
    <<containerName(e), "/">>
    \o (IF cacheType = "fetch" THEN <<"__fetch", "/">> ELSE <<>>)
    \o (IF e.NEXT_BUILD_ID # "" THEN <<e.NEXT_BUILD_ID, "/">> ELSE <<>>)
    \o key
    \o (IF cacheType = "fetch" THEN <<>> ELSE <<".", cacheType>>)

\* C18: set(key, value, cacheType) writes the blob whose key is the "/"-join
\* of container prefix, "__fetch" for fetch entries, build identifier and the
\* key (with "." and the entry kind unless fetch), and no other; get with the
\* same (key, cacheType) reads that blob; delete(key) removes the ".cache"
\* blob of the key, and no other.
BlobKeyLayout ==
    [][ /\ (op'.name = "set" /\ ~Failed(env, op'.fault)) =>
               storage'.blobs =
                   { b \in storage.blobs :
                       b.name # ExpectedBlobKey(env, op'.key, op'.cacheType) }
                   \cup { [ name |-> ExpectedBlobKey(env, op'.key, op'.cacheType),
                            content |-> JSONStringify(
                                CacheValue(env.NEXT_BUILD_ID, op'.key, op'.cacheType)) ] }
        /\ (op'.name = "get" /\ ~Failed(env, op'.fault)) =>
               LET named == { b \in storage.blobs :
                                b.name = ExpectedBlobKey(env, op'.key, op'.cacheType) }
               IN  IF named = {} THEN result'.returned = Null
                   ELSE \E b \in named :
                            result'.returned = [value |-> JSONParse(b.content)]
        /\ (op'.name = "delete" /\ ~Failed(env, op'.fault)) =>
               storage'.blobs =
                   { b \in storage.blobs :
                       b.name # ExpectedBlobKey(env, op'.key, "cache") }
      ]_vars

\* A fetch entry is read back by the process that wrote it.
BlobKeyWitness ==
    /\ Called("get")
    /\ op.cacheType = "fetch"
    /\ result.returned # Null
    /\ result.returned.value["html"].string = <<env.NEXT_BUILD_ID, op.key, "fetch">>

\* C19: a row written for (tag, path) has PartitionKey buildId/tag and RowKey
\* buildId/path; after writeTags succeeds every pair of the call has its row;
\* getByTag(tag) returns exactly the paths written with the tag and
\* getByPath(path) exactly the tags written with the path, under the same
\* build identifier, each as the string that was written.
TagRoundTrip ==
    /\ \A r \in storage.rows :
           /\ r.partitionKey = Str(r.written.build) \o <<"/">> \o r.written.tag
           /\ r.rowKey = Str(r.written.build) \o <<"/">> \o r.written.path
    /\ (Called("writeTags") /\ op.failAt = 0) =>
           \A i \in 1..Len(op.tags) :
               \E r \in storage.rows :
                   /\ r.partitionKey = Str(env.NEXT_BUILD_ID) \o <<"/">> \o op.tags[i].tag
                   /\ r.rowKey = Str(env.NEXT_BUILD_ID) \o <<"/">> \o op.tags[i].path
    /\ (Called("getByTag") /\ ~Failed(env, op.fault)) =>
           result.returned =
               { r.written.path :
                   r \in { r \in storage.rows :
                             r.written.tag = op.tag /\ r.written.build = env.NEXT_BUILD_ID } }
    /\ (Called("getByPath") /\ ~Failed(env, op.fault)) =>
           result.returned =
               { r.written.tag :
                   r \in { r \in storage.rows :
                             r.written.path = op.path /\ r.written.build = env.NEXT_BUILD_ID } }

\* The tag "B/t" written under build B comes back whole, next to another
\* tag's row that is not returned.
TagRoundTripWitness ==
    /\ Called("getByPath")
    /\ env.NEXT_BUILD_ID = "B"
    /\ Cardinality(storage.rows) = 2
    /\ result.returned = { <<"B", "/", "t">>, <<"t">> }

\* ================================================== image optimization
\* The image wrapper (context.res) and the cached image handler
\* (InternalResult), both in front of the optimized-images container.

\* What the image-processing handler does with the streamCreator the wrapper
\* hands it: streams a response and closes the sink, answers a null-body
\* status, returns without a response, or throws.
ImageBuffers == { <<102>>, <<>> }
ImageHeaders(statusCode) ==
    IF statusCode = 200 THEN { "Content-Type" :> <<"image/png">> } ELSE { EmptyObject }
HandlerOutcomes ==
    UNION { { [kind |-> "streamed",
               prelude |-> [statusCode |-> st, cookies |-> <<>>, headers |-> hs],
               body |-> b] : hs \in ImageHeaders(st), b \in ImageBuffers } :
            st \in {200, 404} }
    \cup { [kind |-> "nullBody",
            prelude |-> [statusCode |-> 304, cookies |-> <<>>, headers |-> EmptyObject]],
           [kind |-> "noResponse"],
           [kind |-> "threw"] }

\* What the default image handler returns to the cached handler, or that it
\* throws.
DefaultResults ==
    UNION { { [kind |-> "returned", statusCode |-> st, headers |-> hs, body |-> b] :
                hs \in ImageHeaders(st),
                b \in {Undefined} \cup { [chunks |-> <<c>>] : c \in ImageBuffers } } :
            st \in {200, 404} }
    \cup { [kind |-> "threw"] }

\* headers["Content-Type"] || headers["content-type"] || "image/webp"
ContentTypeOf(headers) ==
    IF "Content-Type" \in DOMAIN headers THEN headers["Content-Type"][1]
    ELSE IF "content-type" \in DOMAIN headers THEN headers["content-type"][1]
    ELSE "image/webp"

\* context.res of the wrapper on a cache hit
CacheHitResponse(buffer) ==
    [ status |-> 200,
      headers |-> ("Content-Type" :> <<"image/webp">>)
                  @@ ("Cache-Control" :> <<"public,max-age=31536000,immutable">>),
      body |-> [buffer |-> buffer] ]

\* context.res of the wrapper after the handler: the closed sink's response,
\* the null-body response, nothing, or the catch block's 500.
MissResponse(outcome) ==
    CASE outcome.kind = "streamed" ->
             [ status |-> outcome.prelude.statusCode,
               headers |-> responseHeaders(outcome.prelude),
               body |-> [buffer |-> outcome.body] ]
      [] outcome.kind = "nullBody" ->
             [ status |-> outcome.prelude.statusCode,
               headers |-> responseHeaders(outcome.prelude) ]
      [] outcome.kind = "noResponse" -> Undefined
      [] outcome.kind = "threw" ->
             [ status |-> 500,
               headers |-> ("Content-Type" :> <<"text/plain">>),
               body |-> [text |-> "Internal server error"] ]

\* Mutant: the wrapper processes every request, cached or not.
WrapperLookup_Skipped(images, query, lookupFault) == Null

\* const cachedBuffer = await getCachedImage(computeCacheKey(internalEvent))
WrapperLookup(images, query, lookupFault) ==
    GetCachedImageOutcome(images, computeCacheKey(query), lookupFault).returned

\* One invocation of the image wrapper: the cached bytes if the lookup finds
\* them; otherwise the handler runs, and a buffer that a closed sink left is
\* stored under the request's key.
ImageWrapperRequest(query, lookupFault) ==
    LET cached == WrapperLookup(storage.images, query, lookupFault)
    IN  /\ op' = [name |-> "imageWrapper", query |-> query, lookupFault |-> lookupFault]
        /\ IF cached # Null
           THEN /\ contextRes' = CacheHitResponse(cached.buffer)
                /\ result' = [handlerInvoked |-> FALSE]
                /\ UNCHANGED storage
           ELSE \E outcome \in HandlerOutcomes :
                /\ contextRes' = MissResponse(outcome)
                /\ result' = [handlerInvoked |-> TRUE, outcome |-> outcome]
                /\ IF outcome.kind = "streamed"
                   THEN \E storeFault \in Faults :
                            storage' = [storage EXCEPT !.images =
                                ImagesAfterStore(@, computeCacheKey(query), outcome.body,
                                                 ContentTypeOf(outcome.prelude.headers),
                                                 storeFault)]
                   ELSE UNCHANGED storage
                /\ StorageSize(storage') <= MaxEntries
        /\ UNCHANGED << pc, request, env, internalEvent, handlerState, thrown,
                        streamFinished, resolveStream, promises, sinks,
                        rejectedWrites, bindingVars, tailVars >>

\* getCachedImage of the cached handler: the blob as an InternalResult.
CachedResult(images, cacheKey, fault) ==
    IF fault = "error" \/ ~\E img \in images : img.name = cacheKey THEN Null
    ELSE LET img == CHOOSE img \in images : img.name = cacheKey
         IN  [ type |-> "core",
               statusCode |-> 200,
               headers |-> ("Content-Type" :> <<img.content.contentType>>)
                           @@ ("Cache-Control" :> <<"public,max-age=31536000,immutable">>)
                           @@ ("Vary" :> <<"Accept">>),
               body |-> [chunks |-> <<img.content.bytes>>],
               isBase64Encoded |-> TRUE ]

\* One call of the handler createCachedImageOptimizationHandler returns: the
\* cached result if the lookup finds one; otherwise the default handler runs,
\* and a 200 result with a body is buffered and stored. setCachedImage reads
\* the new stream to its end before the handler returns it.
CachedImageHandlerRequest(query, lookupFault) ==
    LET cached == CachedResult(storage.images, computeCacheKey(query), lookupFault)
    IN  /\ op' = [name |-> "cachedImageHandler", query |-> query,
                  lookupFault |-> lookupFault]
        /\ IF cached # Null
           THEN /\ result' = [returned |-> cached, handlerInvoked |-> FALSE]
                /\ UNCHANGED storage
           ELSE \E default \in DefaultResults :
                IF default.kind = "threw"
                THEN /\ result' = [threw |-> "HandlerError", handlerInvoked |-> TRUE]
                     /\ UNCHANGED storage
                ELSE IF default.statusCode = 200 /\ default.body # Undefined
                THEN /\ result' =
                            [ returned |->
                                  [ statusCode |-> default.statusCode,
                                    headers |-> default.headers,
                                    body |-> [chunks |-> <<>>] ],
                              handlerInvoked |-> TRUE ]
                     /\ \E storeFault \in Faults :
                            storage' = [storage EXCEPT !.images =
                                ImagesAfterStore(@, computeCacheKey(query),
                                                 BufferConcat(default.body.chunks),
                                                 ContentTypeOf(default.headers),
                                                 storeFault)]
                     /\ StorageSize(storage') <= MaxEntries
                ELSE /\ result' =
                            [ returned |->
                                  [ statusCode |-> default.statusCode,
                                    headers |-> default.headers,
                                    body |-> default.body ],
                              handlerInvoked |-> TRUE ]
                     /\ UNCHANGED storage
        /\ UNCHANGED << wrapperVars, bindingVars, tailVars, env >>

ImageInit ==
    BackendInit({ [AZURE_STORAGE_CONNECTION_STRING |-> "conn",
                   AZURE_STORAGE_ACCOUNT_NAME |-> "mystorage"] })

ImageNext ==
    \/ \E query \in ImageQueries, lf \in Faults : ImageWrapperRequest(query, lf)
    \/ \E query \in ImageQueries, lf \in Faults : CachedImageHandlerRequest(query, lf)

ImageSpec == ImageInit /\ [][ImageNext]_vars

\* ----------------------------------------------------- image properties

\* The request of this step is an image request whose (url, width, quality)
\* an earlier request left stored in the optimized-images container.
StoredBefore ==
    /\ op'.name \in {"imageWrapper", "cachedImageHandler"}
    /\ \E img \in storage.images : img.name = computeCacheKey(op'.query)

\* The request of this step is answered with the stored bytes and the
\* image-processing handler is not invoked.
AnsweredFromCache ==
    LET img == CHOOSE img \in storage.images : img.name = computeCacheKey(op'.query)
    IN  /\ ~result'.handlerInvoked
        /\ storage' = storage
        /\ op'.name = "imageWrapper" =>
               (contextRes'.status = 200 /\ contextRes'.body = [buffer |-> img.content.bytes])
        /\ op'.name = "cachedImageHandler" =>
               /\ result'.returned.statusCode = 200
               /\ BufferConcat(result'.returned.body.chunks) = img.content.bytes

\* C20 as stated: once a request for (url, width, quality) was processed and
\* stored, every later request for the same three is answered from the cache
\* with the stored bytes, the image-processing handler not invoked.
LaterRequestsAnsweredFromCache == [][StoredBefore => AnsweredFromCache]_vars

\* C20, amended: once a request for (url, width, quality) was processed and
\* stored, every later request for the same three whose cache lookup does not
\* fail is answered from the cache with the stored bytes, the
\* image-processing handler not invoked.
LaterRequestsAnsweredFromCacheUnlessLookupFails ==
    [][(StoredBefore /\ op'.lookupFault = "none") => AnsweredFromCache]_vars

\* A request with q left out is answered with the bytes a request with q=75
\* left in the cache.
ImageCacheHitWitness ==
    /\ Called("imageWrapper")
    /\ op.query.q = Undefined
    /\ ~result.handlerInvoked
    /\ contextRes # Undefined
    /\ contextRes.body = [buffer |-> <<102>>]

\* The (url, width, quality) of an image request: the first value of a
\* repeated parameter, "", "0" and "75" where one is left out.
Triple(query) ==
    [ url |-> FirstOr(query.url, ""), width |-> FirstOr(query.w, "0"),
      quality |-> FirstOr(query.q, "75") ]

\* <first 16 hex digits of sha256(url)>/w<width>_q<quality>.cache
ExpectedImageKey(triple) ==
    << Sha256Hex16(triple.url), "/w", triple.width, "_q", triple.quality, ".cache" >>

\* The part of an image cache key after the prefix hash.
KeySuffix(key) == SubSeq(key, 2, Len(key))

\* C21: the image cache key is a function of (url, width, quality) alone:
\* equal triples give equal keys, each of the form
\* <16 hex digits of sha256(url)>/w<width>_q<quality>.cache, two requests
\* that differ in the quality only get keys with the same prefix hash and
\* different suffixes, and every blob of the optimized-images container is
\* named by the key of the request that stored it.
ImageKeyIsFunctionOfTriple ==
    /\ \A q1 \in ImageQueries, q2 \in ImageQueries :
           LET t1 == Triple(q1)
               t2 == Triple(q2)
               k1 == computeCacheKey(q1)
               k2 == computeCacheKey(q2)
           IN  /\ k1 = ExpectedImageKey(t1)
               /\ t1 = t2 => k1 = k2
               /\ (t1.url = t2.url /\ t1.width = t2.width /\ t1.quality # t2.quality) =>
                      (k1[1] = k2[1] /\ KeySuffix(k1) # KeySuffix(k2))
    /\ \A img \in storage.images :
           \E query \in ImageQueries : img.name = ExpectedImageKey(Triple(query))

\* Requests for /a.png at width 640 with quality 75 and with quality 50 have
\* both been stored: two blobs under one prefix hash.
ImageKeyWitness ==
    /\ Called("imageWrapper")
    /\ Triple(op.query).quality = "50"
    /\ \E i1 \in storage.images, i2 \in storage.images :
           /\ i1.name = computeCacheKey(op.query)
           /\ i2.name[1] = i1.name[1]
           /\ KeySuffix(i2.name) # KeySuffix(i1.name)
           /\ i2.name[5] = "75"

\* The request of this step wrote a blob to the optimized-images container.
ImageStored == storage'.images # storage.images

\* The image handler answered the request of this step with status 200 and
\* a body.
HandlerAnswered200WithBody ==
    /\ result'.handlerInvoked
    /\ op'.name = "imageWrapper" =>
           /\ result'.outcome.kind = "streamed"
           /\ result'.outcome.prelude.statusCode = 200
    /\ op'.name = "cachedImageHandler" =>
           /\ "returned" \in DOMAIN result'
           /\ result'.returned.statusCode = 200
           /\ result'.returned.body # Undefined

\* C29: an image is written to the optimized-images cache only when the
\* image handler's response for that request had status 200 and a body;
\* a response with any other status is never stored, so no cache hit, always
\* served as 200, replays a non-200 response.
StoredOnlyWhenHandlerAnswered200 ==
    [][ImageStored => HandlerAnswered200WithBody]_vars

\* ============================================================ bindings
\* The bindings runtime: getBinding(name) builds a client for a configured
\* binding from the environment variables the deployment set, and keeps it
\* in a process-wide Map.

MaxCreated == 3

\* The binding types with a factory.
BindingTypes ==
    { "cosmos-sql", "cosmos-nosql", "postgres-flexible", "mysql-flexible", "redis",
      "service-bus-queue", "service-bus-topic", "event-hub" }

\* The names getBinding is called with; OTHER is configured nowhere.
BindingNames == {"DB", "CACHE", "OTHER"}

\* The environment variable `${name}${suffix}`.
EnvVar(name, suffix) == [binding |-> name, suffix |-> suffix]

\* The bindings of azure.config.json, one entry per name: DB of any type,
\* one of them without a factory, and CACHE a redis.
BindingConfigs ==
    { { [name |-> "DB", type |-> t], [name |-> "CACHE", type |-> "redis"] } :
        t \in BindingTypes \cup {"sql-server"} }

\* The application settings generateBindingsBicep gives the function app.
AppSettings(bindings) ==
    UNION { IF b.type \in {"cosmos-sql", "cosmos-nosql"}
                THEN { EnvVar(b.name, "_ENDPOINT"), EnvVar(b.name, "_PRIMARY_KEY") }
            ELSE IF b.type \in {"postgres-flexible", "mysql-flexible", "redis"}
                THEN { EnvVar(b.name, "_CONNECTION_STRING"), EnvVar(b.name, "_HOST") }
            ELSE IF b.type \in {"service-bus-queue", "service-bus-topic", "event-hub"}
                THEN { EnvVar(b.name, "_CONNECTION_STRING") }
            ELSE {} : b \in bindings }

\* envVars of one entry of the metadata, as the set of its properties.
MetadataEnvVars(name, type) ==
    IF type \in {"cosmos-sql", "cosmos-nosql"}
    THEN { [field |-> "endpoint", var |-> EnvVar(name, "_ENDPOINT")],
           [field |-> "primaryKey", var |-> EnvVar(name, "_PRIMARY_KEY")] }
    ELSE { [field |-> "connectionString", var |-> EnvVar(name, "_CONNECTION_STRING")] }

\* generateBindingsMetadata(bindings): the switch has no default, a type it
\* does not name gets no entry.
generateBindingsMetadata(bindings) ==
    { [name |-> b.name, type |-> b.type, envVars |-> MetadataEnvVars(b.name, b.type)] :
        b \in { c \in bindings : c.type \in BindingTypes } }

\* The process of the function app: its azure.config.json bindings, whether
\* .bindings.json was deployed, and the environment variables that are set.
BindingEnvs ==
    UNION { { [bindings |-> bs, file |-> TRUE, set |-> AppSettings(bs)],
              [bindings |-> bs, file |-> TRUE, set |-> {}],
              [bindings |-> bs, file |-> FALSE, set |-> AppSettings(bs)] } :
            bs \in BindingConfigs }

\* envVars.<field>, undefined when the metadata has no such property.
EnvVarField(envVars, field) ==
    IF \E e \in envVars : e.field = field
    THEN (CHOOSE e \in envVars : e.field = field).var
    ELSE Undefined

\* process.env[name]: process.env[undefined] reads the variable named
\* "undefined", which nothing sets.
ProcessEnv(e, var) ==
    IF var \in e.set THEN [string |-> var] ELSE Undefined

\* The envVars properties the create function of BINDING_FACTORIES[type]
\* reads, in the order it reads them.
FactoryFields(type) ==
    IF type = "cosmos-sql" THEN <<"endpoint", "primaryKey">>
    ELSE <<"connectionString">>

ShouldCache_Never(type) == FALSE

\* BINDING_FACTORIES[type].shouldCache
ShouldCache(type) == TRUE

\* BINDING_FACTORIES[type].create(envVars): the client, the serial-th object
\* the factories made, with the variable names read and the values found.
Create(e, type, envVars, serial) ==
    LET fields == FactoryFields(type)
        names == [i \in 1..Len(fields) |-> EnvVarField(envVars, fields[i])]
    IN  [ serial |-> serial, type |-> type, read |-> names,
          args |-> [i \in 1..Len(fields) |-> ProcessEnv(e, names[i])] ]

\* loadBindingsMetadata(): the cached metadata, else the file, else {}.
loadBindingsMetadata(e, cached) ==
    IF cached # Null THEN cached.entries
    ELSE IF e.file THEN generateBindingsMetadata(e.bindings)
    ELSE {}

\* bindingsMetadata after loadBindingsMetadata(): a file that loads is kept.
MetadataAfterLoad(e, cached) ==
    IF cached # Null THEN cached
    ELSE IF e.file THEN [entries |-> generateBindingsMetadata(e.bindings)]
    ELSE Null

\* The first check of getBinding(name) that fails, "none" if all pass.
BindingCheck(e, metadata, name) ==
    IF ~\E b \in metadata : b.name = name THEN "NotFound"
    ELSE LET binding == CHOOSE b \in metadata : b.name = name
         IN  IF binding.type \notin BindingTypes THEN "UnknownType"
             ELSE IF \E v \in binding.envVars : ProcessEnv(e, v.var) = Undefined
             THEN "MissingEnvVar"
             ELSE "none"

\* getBinding(name)
GetBinding(name) ==
    /\ op' = [name |-> "getBinding", binding |-> name]
    /\ IF \E c \in clientCache : c.name = name
       THEN /\ result' = [returned |-> (CHOOSE c \in clientCache : c.name = name).client]
            /\ UNCHANGED bindingVars
       ELSE LET metadata == loadBindingsMetadata(env, bindingsMetadata)
                check == BindingCheck(env, metadata, name)
            IN  /\ bindingsMetadata' = MetadataAfterLoad(env, bindingsMetadata)
                /\ IF check # "none"
                   THEN /\ result' = [threw |-> check]
                        /\ UNCHANGED << clientCache, created >>
                   ELSE LET binding == CHOOSE b \in metadata : b.name = name
                            client == Create(env, binding.type, binding.envVars,
                                             Len(created) + 1)
                        IN  /\ Len(created) < MaxCreated
                            /\ created' = Append(created, [name |-> name, client |-> client])
                            /\ clientCache' =
                                   IF ShouldCache(binding.type)
                                   THEN clientCache \cup {[name |-> name, client |-> client]}
                                   ELSE clientCache
                            /\ result' = [returned |-> client]
    /\ UNCHANGED << wrapperVars, tailVars, env, storage >>

\* clearBindingsCache()
ClearBindingsCache ==
    /\ op' = [name |-> "clearBindingsCache"]
    /\ clientCache' = {}
    /\ result' = [returned |-> Undefined]
    /\ UNCHANGED << wrapperVars, tailVars, env, storage, bindingsMetadata, created >>

BindingsInit == BackendInit(BindingEnvs)

BindingsNext ==
    \/ \E name \in BindingNames : GetBinding(name)
    \/ ClearBindingsCache

BindingsSpec == BindingsInit /\ [][BindingsNext]_vars

\* --------------------------------------------------- bindings properties

\* This step is a getBinding(name) that returns a client.
GetReturns(name) ==
    /\ op'.name = "getBinding"
    /\ op'.binding = name
    /\ "returned" \in DOMAIN result'

\* C22: a getBinding(name) that returns leaves the client in the cache; as
\* long as clearBindingsCache is not called, every later getBinding(name)
\* returns that same client and no factory is invoked for the name again;
\* only clearBindingsCache takes an entry out of the cache, and the first
\* getBinding(name) that returns after it returns a client constructed anew.
ClientIsCachedUntilCleared ==
    [][ /\ \A name \in BindingNames :
               GetReturns(name) =>
                   /\ [name |-> name, client |-> result'.returned] \in clientCache'
                   /\ IF \E c \in clientCache : c.name = name
                      THEN /\ [name |-> name, client |-> result'.returned] \in clientCache
                           /\ created' = created
                      ELSE /\ Len(created') = Len(created) + 1
                           /\ created'[Len(created')].client = result'.returned
                           /\ \A i \in 1..Len(created) :
                                  created[i].client # result'.returned
        /\ \A name \in BindingNames :
               Cardinality({ c \in clientCache' : c.name = name }) <= 1
        /\ ~(clientCache \subseteq clientCache') => op'.name = "clearBindingsCache"
      ]_vars

\* CACHE was built, the cache was cleared, and getBinding("CACHE") returned
\* the second client made for it, which is the one now cached.
ClearedAndRebuiltWitness ==
    /\ Called("getBinding")
    /\ op.binding = "CACHE"
    /\ Len(created) = 2
    /\ created[1].name = "CACHE"
    /\ created[2].name = "CACHE"
    /\ result = [returned |-> created[2].client]
    /\ clientCache = {[name |-> "CACHE", client |-> created[2].client]}

\* C30: for each binding type, every envVars property the factory reads is
\* in the metadata generateBindingsMetadata emits for the type, so that every
\* client a getBinding call constructed after passing the
\* missing-environment-variable check was made from variable names that are
\* defined and from values that are set.
FactoryReadsOnlyCheckedVariables ==
    \A i \in 1..Len(created) :
        LET client == created[i].client
        IN  \A j \in 1..Len(client.read) :
                /\ client.read[j] # Undefined
                /\ client.args[j] # Undefined

\* ======================================================== command line
\* The commands of the CLI, each one run of a process from its arguments,
\* the files it finds and the answers of the programs it starts, to the
\* commands it issued and its exit code.

\* The names a resource group is given as, and what is typed at a prompt.
ResourceGroupNames == { <<"r", "g">>, <<>> }
TypedLines == { <<"r", "g">>, <<" ", "r", "g", " ">>, <<"R", "G">>, <<"r">>, <<>> }

\* promptForInput(question): the line typed, trimmed.
promptForInput(typed) == [s |-> Trim(typed)]

\* A string option or property that is there and not "".
Given(v) == v # Undefined /\ v.s # <<>>

\* options of deleteResourceGroup
DeleteOptions ==
    [ resourceGroup : {Undefined} \cup { [s |-> n] : n \in ResourceGroupNames },
      yes : BOOLEAN, noWait : BOOLEAN ]

\* azure.config.json in the working directory: not readable, or its content.
AzureConfigs ==
    { [missing |-> TRUE], [resourceGroup |-> Undefined],
      [resourceGroup |-> [s |-> <<"r", "g">>]] }

\* How an az command ends: with output that parses, with output that does
\* not, or with an error.
ExecOutcomes == {"ok", "garbled", "error"}

\* A process that ended: the commands it issued, in order, and its exit
\* code (0 where the command returns without calling process.exit).
Exited(code, commands) == [exitCode |-> code, commands |-> commands]

Confirmed_WithoutAsking(options, confirmation, resourceGroup) == TRUE

\* options.yes, or the confirmation is the resource group name.
Confirmed(options, confirmation, resourceGroup) ==
    options.yes \/ confirmation = resourceGroup

\* deleteResourceGroup(options)
deleteResourceGroup(options, config, show, typed, deletion) ==
    IF ~Given(options.resourceGroup) /\ config = [missing |-> TRUE]
    THEN Exited(1, <<>>)
    ELSE LET resourceGroup ==
                 IF Given(options.resourceGroup) THEN options.resourceGroup
                 ELSE config.resourceGroup
             groupShow == [az |-> "group show", name |-> resourceGroup, flags |-> {}]
             groupDelete ==
                 [ az |-> "group delete", name |-> resourceGroup,
                   flags |-> IF options.noWait THEN {"--yes", "--no-wait"} ELSE {"--yes"} ]
         IN  IF ~Given(resourceGroup) THEN Exited(1, <<>>)
             ELSE IF show # "ok" THEN Exited(1, <<groupShow>>)
             ELSE IF ~Confirmed(options, promptForInput(typed), resourceGroup)
             THEN Exited(0, <<groupShow>>)
             ELSE IF deletion = "error"
             THEN Exited(1, <<groupShow, groupDelete>>)
             ELSE Exited(0, <<groupShow, groupDelete>>)

\* opennextjs-azure delete
Delete(options, config, show, typed, deletion) ==
    /\ op = Undefined
    /\ op' = [ name |-> "delete", options |-> options, config |-> config,
               show |-> show, typed |-> typed, deletion |-> deletion ]
    /\ result' = deleteResourceGroup(options, config, show, typed, deletion)
    /\ UNCHANGED << wrapperVars, bindingVars, tailVars, env, storage >>

\* options of health, and azure.config.json as health reads it: {} when
\* the file is not there.
HealthOptions ==
    { [appName |-> Undefined, resourceGroup |-> Undefined],
      [appName |-> [s |-> <<"a">>], resourceGroup |-> [s |-> <<"r", "g">>]] }
HealthConfigs ==
    { [appName |-> Undefined, resourceGroup |-> Undefined, applicationInsights |-> FALSE],
      [appName |-> [s |-> <<"a">>], resourceGroup |-> [s |-> <<"r", "g">>],
       applicationInsights |-> FALSE],
      [appName |-> [s |-> <<"a">>], resourceGroup |-> [s |-> <<"r", "g">>],
       applicationInsights |-> TRUE] }

\* The checks of health, in the order of the array; Application Insights is
\* pushed when the configuration asks for it.
HealthChecks(config) ==
    << "Azure CLI", "Azure Authentication", "Resource Group", "Storage Account",
       "Function App", "App Service Plan", "Function App Status", "Storage Containers",
       "Function App Configuration" >>
    \o (IF config.applicationInsights THEN <<"Application Insights">> ELSE <<>>)

\* How check.fn() ends: a result that passed, one that did not, or a throw.
CheckOutcomes == {"passed", "failed", "threw"}

\* The counters of health before the first check.
NoChecksYet == [ran |-> <<>>, passedCount |-> 0, failedCount |-> 0, errors |-> <<>>]

CountCheck_ThrowUncounted(acc, name, outcome) ==
    IF outcome = "passed"
    THEN [acc EXCEPT !.ran = Append(@, name), !.passedCount = @ + 1]
    ELSE IF outcome = "threw"
    THEN [acc EXCEPT !.ran = Append(@, name)]
    ELSE [acc EXCEPT !.ran = Append(@, name), !.failedCount = @ + 1,
                     !.errors = Append(@, name)]

\* The body of the loop over the checks, try and catch.
CountCheck(acc, name, outcome) ==
    IF outcome = "passed"
    THEN [acc EXCEPT !.ran = Append(@, name), !.passedCount = @ + 1]
    ELSE [acc EXCEPT !.ran = Append(@, name), !.failedCount = @ + 1,
                     !.errors = Append(@, name)]

\* for (const check of checks) { ... }
RECURSIVE RunChecks(_, _, _)
RunChecks(checks, outcomes, acc) ==
    IF checks = <<>> THEN acc
    ELSE RunChecks(Tail(checks), Tail(outcomes), CountCheck(acc, checks[1], outcomes[1]))

\* `a || b` of two string properties
OrString(a, b) == IF Given(a) THEN a ELSE b

\* health(options)
health(options, config, outcomes) ==
    LET appName == OrString(options.appName, config.appName)
        resourceGroup == OrString(options.resourceGroup, config.resourceGroup)
    IN  IF ~Given(appName) \/ ~Given(resourceGroup)
        THEN [ exitCode |-> 1, ran |-> <<>>, passedCount |-> 0, failedCount |-> 0,
               errors |-> <<>> ]
        ELSE LET counted == RunChecks(HealthChecks(config), outcomes, NoChecksYet)
             IN  [ exitCode |-> IF counted.failedCount > 0 THEN 1 ELSE 0,
                   ran |-> counted.ran, passedCount |-> counted.passedCount,
                   failedCount |-> counted.failedCount, errors |-> counted.errors ]

\* opennextjs-azure health
Health(options, config, outcomes) ==
    /\ op = Undefined
    /\ op' = [ name |-> "health", options |-> options, config |-> config,
               outcomes |-> outcomes ]
    /\ result' = health(options, config, outcomes)
    /\ UNCHANGED << wrapperVars, bindingVars, tailVars, env, storage >>

\* What deploy is started with and what it finds: per check or step, how
\* the az commands and file accesses it makes turn out.
DeployInputs ==
    [ skipInfrastructure : BOOLEAN,
      cli : {"installed", "missing"},
      login : {"loggedIn", "loginSucceeds", "loginFails"},
      subscription : {"Enabled", "Disabled", "error"},
      location : {"valid", "invalid", "invalidAndListFails", "error"},
      providers : {"registered", "registered after register", "error"},
      quota : {"available", "none", "error"},
      build : {"valid", "missing", "incomplete"},
      existing : {"all there", "missing"},
      provision : {"ok", "syncFails", "fails"},
      upload : {"ok", "fails"},
      functionApp : {"ok", "fails"},
      postflight : {"ok", "fails"} ]

\* The awaits of deploy, in the order of the try block.
DeployStages(skipInfrastructure) ==
    << "checkAzureCLI", "checkAzureLogin", "checkAzureSubscriptionPermissions",
       "checkLocation", "checkRequiredProviders", "checkQuotaAvailability",
       "checkBuildOutput" >>
    \o (IF skipInfrastructure THEN <<"checkExistingInfrastructure">>
        ELSE <<"syncBicepTemplate", "provisionInfrastructure">>)
    \o << "uploadStaticAssets", "deployFunctionApp", "performPostflightChecks" >>

\* Whether the stage throws. checkLocation and checkQuotaAvailability throw
\* only their own errors (an invalid location, no quota) and continue with a
\* warning when a command of theirs fails; performPostflightChecks catches
\* everything.
StageThrows(stage, in) ==
    CASE stage = "checkAzureCLI" -> in.cli = "missing"
      [] stage = "checkAzureLogin" -> in.login = "loginFails"
      [] stage = "checkAzureSubscriptionPermissions" -> in.subscription # "Enabled"
      [] stage = "checkLocation" -> in.location = "invalid"
      [] stage = "checkRequiredProviders" -> in.providers = "error"
      [] stage = "checkQuotaAvailability" -> in.quota = "none"
      [] stage = "checkBuildOutput" -> in.build # "valid"
      [] stage = "checkExistingInfrastructure" -> in.existing = "missing"
      [] stage = "syncBicepTemplate" -> in.provision = "syncFails"
      [] stage = "provisionInfrastructure" -> in.provision = "fails"
      [] stage = "uploadStaticAssets" -> in.upload = "fails"
      [] stage = "deployFunctionApp" -> in.functionApp = "fails"
      [] stage = "performPostflightChecks" -> FALSE

RECURSIVE RunStages_PastFailedChecks(_, _, _)
RunStages_PastFailedChecks(stages, in, issued) ==
    IF stages = <<>> THEN Exited(0, issued)
    ELSE IF StageThrows(stages[1], in) /\ stages[1] \notin {"checkBuildOutput", "checkAzureLogin"}
    THEN Exited(1, Append(issued, stages[1]))
    ELSE RunStages_PastFailedChecks(Tail(stages), in, Append(issued, stages[1]))

\* try { await ...; await ...; } catch { process.exit(1) }: the stages run in
\* order, the first that throws is the last.
RECURSIVE RunStages(_, _, _)
RunStages(stages, in, issued) ==
    IF stages = <<>> THEN Exited(0, issued)
    ELSE IF StageThrows(stages[1], in) THEN Exited(1, Append(issued, stages[1]))
    ELSE RunStages(Tail(stages), in, Append(issued, stages[1]))

\* deploy(options)
deploy(in) == RunStages(DeployStages(in.skipInfrastructure), in, <<>>)

\* opennextjs-azure deploy
DeployApp(in) ==
    /\ op' = [name |-> "deployApp", in |-> in]
    /\ result' = deploy(in)
    /\ UNCHANGED << wrapperVars, bindingVars, tailVars, env, storage >>

\* The config path build is given: none, the default name, another file.
ConfigPaths == { Undefined, [s |-> "open-next.config.ts"], [s |-> "custom.config.ts"] }

\* The two config files of the project directory, each absent, the user's,
\* or the temporary one build writes.
ProjectFiles ==
    [ {"open-next.config.ts", "custom.config.ts"} -> {"absent", "user"} ]

\* How the build steps end: both succeed, or one of them throws.
BuildOutcomes == {"ok", "openNextBuild throws", "prepareFunctions throws"}

\* build(configPath): the files it leaves and its exit code. process.exit(1)
\* in the catch block ends the process there, the finally block only runs
\* when the try block completes.
build(configPath, files, outcome) ==
    LET userConfigPath ==
            IF configPath = Undefined THEN "open-next.config.ts" ELSE configPath.s
        createsTemp == files[userConfigPath] = "absent"
        written == IF createsTemp
                   THEN [files EXCEPT !["open-next.config.ts"] = "temporary"]
                   ELSE files
        resolvedConfigPath == IF createsTemp THEN "open-next.config.ts" ELSE userConfigPath
    IN  IF outcome # "ok"
        THEN [ exitCode |-> 1, files |-> written, builtWith |-> resolvedConfigPath ]
        ELSE [ exitCode |-> 0,
               files |-> IF createsTemp /\ written["open-next.config.ts"] # "absent"
                         THEN [written EXCEPT !["open-next.config.ts"] = "absent"]
                         ELSE written,
               builtWith |-> resolvedConfigPath ]

\* opennextjs-azure build
Build(configPath, files, outcome) ==
    /\ op' = [ name |-> "build", configPath |-> configPath, files |-> files,
               outcome |-> outcome ]
    /\ result' = build(configPath, files, outcome)
    /\ UNCHANGED << wrapperVars, bindingVars, tailVars, env, storage >>

CliInit == BackendInit({ [NODE_ENV |-> "production"] })

\* One command per process: nothing is enumerated once a command has run.
CliNext ==
    \/ /\ op = Undefined
       /\ \E options \in DeleteOptions, config \in AzureConfigs, show \in ExecOutcomes,
             typed \in TypedLines, deletion \in ExecOutcomes :
              Delete(options, config, show, typed, deletion)
    \/ /\ op = Undefined
       /\ \E options \in HealthOptions, config \in HealthConfigs :
              \E outcomes \in [1..Len(HealthChecks(config)) -> CheckOutcomes] :
                  Health(options, config, outcomes)
    \/ /\ op = Undefined
       /\ \E in \in DeployInputs : DeployApp(in)
    \/ /\ op = Undefined
       /\ \E configPath \in ConfigPaths, files \in ProjectFiles, outcome \in BuildOutcomes :
              Build(configPath, files, outcome)

CliSpec == CliInit /\ [][CliNext]_vars

\* -------------------------------------------------------- cli properties

\* The process issued 'az group delete'.
DeleteIssued == \E i \in 1..Len(result.commands) : result.commands[i].az = "group delete"

\* The process issued 'az group show' and it found the resource group.
GroupFound ==
    /\ op.show = "ok"
    /\ \E i \in 1..Len(result.commands) : result.commands[i].az = "group show"

\* The resource group the delete command is about.
GroupToDelete ==
    IF Given(op.options.resourceGroup) THEN op.options.resourceGroup
    ELSE op.config.resourceGroup

\* C23 as stated: 'az group delete' is issued only after the resource group
\* was found to exist and only if --yes was given or the line typed at the
\* prompt is the resource group name exactly; a line that is not the name
\* ends the command with exit code 0 and no delete.
DeleteOnlyWhenTypedExactly ==
    Called("delete") =>
        /\ DeleteIssued =>
               /\ GroupFound
               /\ op.options.yes \/ [s |-> op.typed] = GroupToDelete
        /\ (GroupFound /\ ~op.options.yes /\ [s |-> op.typed] # GroupToDelete) =>
               (result.exitCode = 0 /\ ~DeleteIssued)

\* C23, amended: 'az group delete' is issued only after the resource group
\* was found to exist and only if --yes was given or the line typed at the
\* prompt, its surrounding whitespace removed, is the resource group name
\* exactly; a confirmation that is not the name ends the command with exit
\* code 0 and no delete.
DeleteOnlyWhenConfirmed ==
    Called("delete") =>
        /\ DeleteIssued =>
               /\ GroupFound
               /\ result.commands[1].az = "group show"
               /\ op.options.yes \/ [s |-> Trim(op.typed)] = GroupToDelete
        /\ (GroupFound /\ ~op.options.yes /\ [s |-> Trim(op.typed)] # GroupToDelete) =>
               (result.exitCode = 0 /\ ~DeleteIssued)

\* Without --yes the name was typed and the resource group was deleted.
DeleteConfirmedWitness ==
    /\ Called("delete")
    /\ ~op.options.yes
    /\ op.typed = <<"r", "g">>
    /\ DeleteIssued
    /\ result.exitCode = 0

PreflightChecks ==
    << "checkAzureCLI", "checkAzureLogin", "checkAzureSubscriptionPermissions",
       "checkLocation", "checkRequiredProviders", "checkQuotaAvailability",
       "checkBuildOutput" >>

\* The position of the stage among the commands the process issued, 0 if it
\* was not issued.
IssuedAt(stage) == IndexOf(result.commands, stage)

\* The stage was issued and returned without throwing.
Passed(stage) == IssuedAt(stage) > 0 /\ ~StageThrows(stage, op.in)

TerminationPreludes ==
    { p \in Preludes : p.statusCode \in {101, 200} }

TerminationNext ==
    \/ ConvertThrows
    \/ StaticAssetRedirect
    \/ InvokeHandler
    \/ AfterHandler
    \/ AfterStream
    \/ CatchHandlerError
    \/ \E p \in TerminationPreludes : WriteHeaders(p)
    \/ \E i \in 1..Len(sinks) : SinkWrite(i, <<169>>)
    \/ \E i \in 1..Len(sinks) : WriteAfterEnd(i)
    \/ \E i \in 1..Len(sinks) : SinkEnd(i)
    \/ \E i \in 1..Len(sinks) : SinkFinal(i)
    \/ HandlerReturns
    \/ \E e \in Errors : HandlerThrows(e)

\* The steps of the wrapper's own async function.
WrapperStep ==
    \/ ConvertThrows
    \/ StaticAssetRedirect
    \/ InvokeHandler
    \/ AfterHandler
    \/ AfterStream
    \/ CatchHandlerError

TerminationSpec ==
    /\ Init
    /\ [][TerminationNext]_vars
    /\ WF_vars(WrapperStep)
    /\ WF_vars(\E i \in 1..Len(sinks) : SinkFinal(i))

\* The handler's promise has settled.
HandlerSettled == handlerState \in {"returned", "threw"}

\* The wrapper's promise has settled with context.res assigned.
Completed == pc = "done" /\ contextRes # Undefined

\* The promise the wrapper awaits, if any, is resolved or about to be: a
\* buffering sink was closed after the last writeHeaders call.
StreamClosed ==
    \/ streamFinished = 0
    \/ promises[streamFinished] > 0
    \/ \E i \in 1..Len(sinks) : ~sinks[i].nullBody /\ sinks[i].state = "ended"

\* C26 as stated: whenever the handler's promise settles, the invocation
\* eventually completes with context.res assigned, whether or not the
\* handler closed the sink it got from writeHeaders.
SettledLeadsToCompleted == HandlerSettled ~> Completed

\* C26, amended: whenever the handler's promise rejects, or resolves with no
\* stream to wait for or with the awaited stream closed, the invocation
\* eventually completes with context.res assigned.
SettledAndClosedLeadsToCompleted ==
    (HandlerSettled /\ (handlerState = "threw" \/ StreamClosed)) ~> Completed

\* The handler closed its sink and resolved, the wrapper waited for final()
\* and completed with the streamed response.
CompletedAfterStreamWitness ==
    /\ Completed
    /\ handlerState = "returned"
    /\ streamFinished # 0
    /\ promises[streamFinished] > 0
    /\ \E i \in 1..Len(sinks) : sinks[i].state = "finished" /\ sinks[i].written # <<>>

\* C27: build leaves open-next.config.ts as it found it, whether the build
\* succeeds or fails and whatever config path it was given: a file that was
\* there is still there and still the user's, and where there was none there
\* is none when the command ends.
BuildLeavesConfigAsFound ==
    Called("build") =>
        result.files["open-next.config.ts"] = op.files["open-next.config.ts"]

\* ========================================================= log streaming
\* src/cli/tail.ts: streamLogs queries Application Insights for the rows after
\* lastTimestamp, prints the ones whose key it has not seen, and moves
\* lastTimestamp to each row it prints. The first query is awaited; after it
\* setInterval starts one every 1.5 s, whether or not the one before has
\* come back.

MaxTime == 3        \* timestamps of the rows Application Insights ingests
MaxPolls == 4       \* queries streamLogs starts
\* The query's `limit 100` and the 1000 keys the Set is cut back to, scaled
\* down with the number of rows; as in the source one answer fits the Set.
QueryLimit == 2
SeenLimit == 2

Messages == {"a", "b"}

\* The rows of the union the query reads: each has a message, so the query's
\* isnotempty filter passes them and the loop's empty-trace test skips none.
LogRows == [timestamp : 1..MaxTime, message : Messages]

\* `${timestamp}-${message}`: timestamps have one fixed format, so the key
\* names the pair.
messageKey(row) == << row.timestamp, row.message >>

\* where timestamp > datetime(lastTimestamp), over the rows ingested so far.
Matching(cursor) == { r \in telemetry : r.timestamp > cursor }

\* order by timestamp asc | limit: the first rows by timestamp, rows of one
\* timestamp in any order.
IsAnswer(rows, matching) ==
    /\ Len(rows) = IF Cardinality(matching) < QueryLimit
                   THEN Cardinality(matching) ELSE QueryLimit
    /\ \A i \in 1..Len(rows) : rows[i] \in matching
    /\ \A i, j \in 1..Len(rows) :
           i < j => /\ rows[i] # rows[j]
                    /\ rows[i].timestamp <= rows[j].timestamp
    /\ \A r \in matching :
           (\A i \in 1..Len(rows) : rows[i] # r) =>
               \A i \in 1..Len(rows) : rows[i].timestamp <= r.timestamp

Answers(cursor) ==
    { rows \in UNION { [1..n -> Matching(cursor)] : n \in 0..QueryLimit } :
          IsAnswer(rows, Matching(cursor)) }

\* The loop over the rows of one answer: a row whose key is in the Set is
\* skipped, any other is added to the Set, printed, and becomes lastTimestamp.
RECURSIVE ProcessRows(_, _)
ProcessRows(rows, s) ==
    IF rows = << >> THEN s
    ELSE LET row == Head(rows)
         IN  IF \E k \in 1..Len(s.seen) : s.seen[k] = messageKey(row)
             THEN ProcessRows(Tail(rows), s)
             ELSE ProcessRows(Tail(rows),
                      [ seen |-> Append(s.seen, messageKey(row)),
                        out |-> Append(s.out, row),
                        last |-> row.timestamp ])

\* if (seenMessages.size > 1000): keep the last 1000 in insertion order.
TrimSeen(seen) ==
    IF Len(seen) > SeenLimit
    THEN SubSeq(seen, Len(seen) - SeenLimit + 1, Len(seen))
    ELSE seen

\* Application Insights ingests a row; ingestion is not in timestamp order.
Ingest(row) ==
    /\ row \notin telemetry
    /\ telemetry' = telemetry \cup {row}
    /\ UNCHANGED << wrapperVars, bindingVars, env, op, result, storage,
                    lastTimestamp, seenMessages, polls, printed >>

\* query() up to its await: the query text is built from lastTimestamp as it
\* is now. The first call is awaited before setInterval is set up.
StartQuery ==
    /\ Len(polls) < MaxPolls
    /\ Len(polls) > 0 => polls[1].state = "done"
    /\ polls' = Append(polls, [ cursor |-> lastTimestamp, state |-> "sent",
                                rows |-> << >> ])
    /\ UNCHANGED << wrapperVars, bindingVars, env, op, result, storage,
                    lastTimestamp, seenMessages, printed, telemetry >>

\* Application Insights evaluates query i.
AnswerQuery(i) ==
    /\ polls[i].state = "sent"
    /\ \E rows \in Answers(polls[i].cursor) :
           polls' = [polls EXCEPT ![i].state = "answered", ![i].rows = rows]
    /\ UNCHANGED << wrapperVars, bindingVars, env, op, result, storage,
                    lastTimestamp, seenMessages, printed, telemetry >>

\* execAsync rejects: the catch block reports it and the query is over.
QueryError(i) ==
    /\ polls[i].state = "sent"
    /\ polls' = [polls EXCEPT ![i].state = "done"]
    /\ UNCHANGED << wrapperVars, bindingVars, env, op, result, storage,
                    lastTimestamp, seenMessages, printed, telemetry >>

\* query() after its await, for query i: the loop and the trim, in one turn
\* of the event loop.
CompleteQuery(i) ==
    /\ polls[i].state = "answered"
    /\ LET s == ProcessRows(polls[i].rows,
                    [ seen |-> seenMessages, out |-> printed, last |-> lastTimestamp ])
       IN  /\ seenMessages' = TrimSeen(s.seen)
           /\ printed' = s.out
           /\ lastTimestamp' = s.last
    /\ polls' = [polls EXCEPT ![i].state = "done", ![i].rows = << >>]
    /\ UNCHANGED << wrapperVars, bindingVars, env, op, result, storage, telemetry >>

TailInit == BackendInit({ [NODE_ENV |-> "production"] })

TailNext ==
    \/ \E row \in LogRows : Ingest(row)
    \/ StartQuery
    \/ \E i \in 1..Len(polls) : AnswerQuery(i)
    \/ \E i \in 1..Len(polls) : QueryError(i)
    \/ \E i \in 1..Len(polls) : CompleteQuery(i)

TailSpec == TailInit /\ [][TailNext]_vars

\* ------------------------------------------------------- tail properties

\* No two printed rows have the same timestamp and message.
NoRowPrintedTwice ==
    \A i, j \in 1..Len(printed) :
        i # j => messageKey(printed[i]) # messageKey(printed[j])

\* The Set holds at most the limit once a query has completed.
SeenSetIsCapped == Len(seenMessages) <= SeenLimit

\* C28: across any sequence of polls, overlapping ones included, no row with
\* the same timestamp and message is printed twice, lastTimestamp never moves
\* backwards, and the seen-message Set holds at most its limit of entries
\* after each poll completes.
TailPrintsOnceAndMovesForward ==
    /\ []NoRowPrintedTwice
    /\ [][lastTimestamp' >= lastTimestamp]_lastTimestamp
    /\ []SeenSetIsCapped

====
